---- MODULE Spec2Model ----
(***************************************************************************)
(* Remote-management core of the ESP8266 greenhouse node, firmware v3.2.0: *)
(* the configuration record and its EEPROM image (config.cpp), the         *)
(* heartbeat and the cloud sensor-configuration fetch (heartbeat.cpp), the *)
(* command parser, dispatcher, WiFi credential rotation and OTA update     *)
(* (commands.cpp).                                                         *)
(*                                                                         *)
(* C strings are sequences of one-character strings.  A char buffer of     *)
(* size n+1 whose last byte is NUL holds a string of at most n characters. *)
(* A uint32_t is the set of the positions (0..31) of its one bits.         *)
(***************************************************************************)
EXTENDS Integers, Sequences, FiniteSets, TLC

\* ---------------------------------------------------------------- bounds

\* heartbeat ticks the model follows within one process lifetime
MaxTicks == 2

\* restarts (process lifetimes after the first) the model follows
MaxBoots == 1

\* delay(500) polls one join wait lasts before it times out
\* (WIFI_CONNECT_TIMEOUT / 500 = 60 on the device)
WaitPolls == 2

\* ------------------------------------------------------ program constants

\* config.h:9
MAX_SENSORS == 4

\* config.h:27  char composite_device_id[15]
ID_MAX == 14

\* config.h:28  char wifi_ssid[33]
SSID_MAX == 32

\* config.h:30  char device_key[65]
KEY_LEN == 64

\* config.h:29  char wifi_password[64]
PASS_MAX == 63

\* config.h:15  char name[32]
NAME_MAX == 31

\* commands.h:15  char id[37]
CMD_ID_MAX == 36

\* commands.h:16  char type[20]
CMD_TYPE_MAX == 19

\* commands.h:19  char url[256]
CMD_URL_MAX == 255

\* commands.h:20  char version[16]
CMD_VERSION_MAX == 15

\* config.cpp:34  upper limit of a plausible config_version
CONFIG_VERSION_MAX == 10000

\* pins_arduino.h of the ESP8266 core: A0, the sole analog pin
A0 == 17

\* commands.h:9-11
CMD_RESET == <<"r","e","s","e","t">>

CMD_WIFI_UPDATE == <<"w","i","f","i","_","u","p","d","a","t","e">>

CMD_FIRMWARE_UPDATE ==
    <<"f","i","r","m","w","a","r","e","_","u","p","d","a","t","e">>

\* An optional value (a JSON member that may be absent, a const char* that
\* may be null) is a sequence: empty when absent, <<v>> when present.
NULL == <<>>

Some(v) == <<v>>

IsNull(o) == Len(o) = 0

Val(o) == o[1]

\* ----------------------------------------------------------- C strings

Min(a, b) == IF a < b THEN a ELSE b

\* strncpy(dest, src, n) into a buffer of n+1 bytes whose last byte is NUL:
\* the first n characters of src; a shorter src is NUL-padded
strncpy(src, n) == SubSeq(src, 1, Min(Len(src), n))

strlen(s) == Len(s)

\* strcmp(a, b) == 0
streq(a, b) == a = b

\* strncmp(s, p, Len(p)) == 0
HasPrefix(s, p) == Len(s) >= Len(p) /\ SubSeq(s, 1, Len(p)) = p

\* strstr(s, p) != NULL
strstr(s, p) ==
    \E i \in 1..(Len(s) - Len(p) + 1) : SubSeq(s, i, i + Len(p) - 1) = p

Digits == <<"0","1","2","3","4","5","6","7","8","9">>

isdigit(c) == \E d \in 1..10 : Digits[d] = c

DigitVal(c) == (CHOOSE d \in 1..10 : Digits[d] = c) - 1

RECURSIVE AtoiDigits(_, _, _)
AtoiDigits(s, i, acc) ==
    IF i > Len(s) \/ ~isdigit(s[i]) THEN acc
    ELSE AtoiDigits(s, i + 1, acc * 10 + DigitVal(s[i]))

\* atoi(s): optional sign, then the leading run of digits; 0 without digits
atoi(s) ==
    IF Len(s) > 0 /\ s[1] = "-" THEN 0 - AtoiDigits(s, 2, 0)
    ELSE IF Len(s) > 0 /\ s[1] = "+" THEN AtoiDigits(s, 2, 0)
    ELSE AtoiDigits(s, 1, 0)

\* conversion of an int to uint8_t
U8(n) == n % 256

\* ------------------------------------------------------------- CRC-32

\* byte codes of the characters the model's strings use
Alphabet ==
    <<"A","B","C","D","E","G","I","O","P","a","b","c","d","e","f","g","h","i",
      "k","l","m","n","o","p","r","s","t","u","v","w","x","y","_","-","+",
      ":","/",".","0","1","2","3","4","5","6","7","8","9">>

AlphabetCode ==
    <<65,66,67,68,69,71,73,79,80,97,98,99,100,101,102,103,104,105,
      107,108,109,110,111,112,114,115,116,117,118,119,120,121,95,45,43,
      58,47,46,48,49,50,51,52,53,54,55,56,57>>

Ord(c) == AlphabetCode[CHOOSE i \in 1..Len(Alphabet) : Alphabet[i] = c]

RECURSIVE BitsFrom(_, _)
BitsFrom(n, i) ==
    IF n = 0 THEN {}
    ELSE (IF n % 2 = 1 THEN {i} ELSE {}) \cup BitsFrom(n \div 2, i + 1)

\* the one bits of a non-negative number
Bits(n) == BitsFrom(n, 0)

\* a uint32_t
IsU32(x) == x \subseteq 0..31

\* a ^ b on 32 bits
Xor(a, b) == {i \in 0..31 : (i \in a) # (i \in b)}

\* x >> 1 on 32 bits
Shr1(x) == {i \in 0..30 : i + 1 \in x}

\* ~x on 32 bits
Not32(x) == {i \in 0..31 : i \notin x}

\* 0xEDB88320
CRC_POLY == {31,30,29,27,26,24,23,21,20,19,15,9,8,5}

RECURSIVE CrcBits(_, _)
CrcBits(crc, j) ==
    IF j = 0 THEN crc
    ELSE CrcBits(IF 0 \in crc THEN Xor(Shr1(crc), CRC_POLY) ELSE Shr1(crc),
                 j - 1)

\* the register after the bytes data[lo..hi], taken in order (the range is
\* halved only to keep the evaluation shallow)
RECURSIVE CrcRange(_, _, _, _)
CrcRange(crc, data, lo, hi) ==
    IF ~IsU32(crc) \/ lo > hi THEN crc
    ELSE IF lo = hi THEN CrcBits(Xor(crc, Bits(data[lo])), 8)
    ELSE CrcRange(CrcRange(crc, data, lo, (lo + hi) \div 2),
                  data, (lo + hi) \div 2 + 1, hi)

\* calculateCRC32(data, length): start 0xFFFFFFFF, reflected polynomial,
\* result inverted
crc32Loop(data) == Not32(CrcRange(0..31, data, 1, Len(data)))

\* -------------------------------------------------- configuration record

\* the bytes of a char buffer up to and including its terminating NUL
CStrBytes(s) == [i \in 1..(Len(s) + 1) |-> IF i <= Len(s) THEN Ord(s[i]) ELSE 0]

NatBytes(n) ==
    <<n % 256, (n \div 256) % 256, (n \div 65536) % 256, (n \div 16777216) % 256>>

\* a 32-bit int, little endian, two's complement
IntBytes(n) ==
    IF n >= 0 THEN NatBytes(n)
    ELSE [i \in 1..4 |-> 255 - NatBytes(0 - (n + 1))[i]]

SensorBytes(s) == <<s.pin, s.type>> \o CStrBytes(s.name)

RECURSIVE SensorsBytes(_, _)
SensorsBytes(ss, i) ==
    IF i > Len(ss) THEN <<>> ELSE SensorBytes(ss[i]) \o SensorsBytes(ss, i + 1)

\* the bytes of struct DeviceConfig that precede crc32, in field order; the
\* NUL padding that follows a string's terminator in its buffer is left out
ConfigBytes(cfg) ==
    CStrBytes(cfg.composite_device_id) \o CStrBytes(cfg.wifi_ssid)
    \o CStrBytes(cfg.wifi_password) \o CStrBytes(cfg.device_key)
    \o SensorsBytes(cfg.sensors, 1) \o IntBytes(cfg.config_version)
    \o CStrBytes(cfg.wifi_backup.ssid) \o CStrBytes(cfg.wifi_backup.password)
    \o <<IF cfg.wifi_backup.valid THEN 1 ELSE 0>>

\* memset(&slot, 0, sizeof slot)
ZeroSensor == [pin |-> 0, type |-> 0, name |-> <<>>]

ZeroSensors == [i \in 1..MAX_SENSORS |-> ZeroSensor]

ZeroBackup == [ssid |-> <<>>, password |-> <<>>, valid |-> FALSE]

\* ------------------------------------------------- sensor configuration

S_temp == <<"t","e","m","p">>

S_humidity == <<"h","u","m","i","d","i","t","y">>

S_soil_moisture == <<"s","o","i","l","_","m","o","i","s","t","u","r","e">>

S_water_level == <<"w","a","t","e","r","_","l","e","v","e","l">>

S_unconfigured == <<"u","n","c","o","n","f","i","g","u","r","e","d">>

S_GPIO == <<"G","P","I","O">>

\* const uint8_t dPinMap[] (Wemos D1 Mini), index 0..10
dPinMap == <<16, 5, 4, 0, 2, 14, 12, 13, 15, 3, 1>>

\* variant: "water_level" is looked for inside the name, like the others
mapSensorType_waterContains(dbType) ==
    IF strstr(dbType, S_temp) \/ strstr(dbType, S_humidity) THEN 1
    ELSE IF strstr(dbType, S_soil_moisture) THEN 3
    ELSE IF strstr(dbType, S_water_level) THEN 4
    ELSE 0

\* mapSensorType(dbType)
mapSensorType(dbType) ==
    IF strstr(dbType, S_temp) \/ strstr(dbType, S_humidity) THEN 1
    ELSE IF strstr(dbType, S_soil_moisture) THEN 3
    ELSE IF streq(dbType, S_water_level) THEN 4
    ELSE 0

\* variant: the table is walked from index 1, as if "D1" were its first entry
parsePortId_tableFromOne(portId) ==
    IF HasPrefix(portId, S_GPIO)
    THEN U8(atoi(SubSeq(portId, 5, Len(portId))))
    ELSE IF /\ Len(portId) >= 2 /\ portId[1] = "D" /\ isdigit(portId[2])
            /\ atoi(SubSeq(portId, 2, Len(portId))) \in 1..10
    THEN dPinMap[atoi(SubSeq(portId, 2, Len(portId)))]
    ELSE IF streq(portId, <<"A","0">>) THEN A0
    ELSE U8(atoi(portId))

\* parsePortId(portId)
parsePortId(portId) ==
    IF HasPrefix(portId, S_GPIO)
    THEN U8(atoi(SubSeq(portId, 5, Len(portId))))
    ELSE IF /\ Len(portId) >= 2 /\ portId[1] = "D" /\ isdigit(portId[2])
            /\ atoi(SubSeq(portId, 2, Len(portId))) <= 10
    THEN dPinMap[atoi(SubSeq(portId, 2, Len(portId))) + 1]
    ELSE IF streq(portId, <<"A","0">>) THEN A0
    ELSE U8(atoi(portId))

\* the loop of fetchAndApplyCloudConfig over the array's elements, from
\* element i on, sensorIndex slots being filled already
RECURSIVE applyEntries(_, _, _, _)
applyEntries(sensors, items, i, sensorIndex) ==
    IF i > Len(items) \/ sensorIndex >= MAX_SENSORS THEN sensors
    ELSE LET e == items[i]
         IN  IF \/ IsNull(e.sensor_type) \/ IsNull(e.port_id)
                \/ streq(Val(e.sensor_type), S_unconfigured)
             THEN applyEntries(sensors, items, i + 1, sensorIndex)
             ELSE applyEntries(
                    [sensors EXCEPT ![sensorIndex + 1] =
                        [type |-> mapSensorType(Val(e.sensor_type)),
                         pin  |-> parsePortId(Val(e.port_id)),
                         name |-> strncpy(Val(e.sensor_type), NAME_MAX)]],
                    items, i + 1, sensorIndex + 1)

\* responseDoc.as<JsonArray>(): the elements of an array, none otherwise
asJsonArray(doc) == IF doc.kind = "array" THEN doc.items ELSE <<>>

\* ------------------------------------------------------------- commands

\* memset(&cmd, 0, sizeof(cmd))
ZeroCommand ==
    [id |-> <<>>, type |-> <<>>, ssid |-> <<>>, password |-> <<>>,
     url |-> <<>>, version |-> <<>>, valid |-> FALSE]

\* a payload member copied into a zeroed buffer when the key is present
payloadField(payload, key, n) ==
    IF IsNull(payload[key]) THEN <<>> ELSE strncpy(Val(payload[key]), n)

\* parseCommand(cmdJson).  cmdJson is the JSON object
\* [id, type, payload |-> [ssid, password, url, version]], every member
\* optional.
parseCommand(cmdJson) ==
    IF IsNull(cmdJson.id) \/ IsNull(cmdJson.type) THEN ZeroCommand
    ELSE LET base == [ZeroCommand EXCEPT
                        !.id = strncpy(Val(cmdJson.id), CMD_ID_MAX),
                        !.type = strncpy(Val(cmdJson.type), CMD_TYPE_MAX)]
             wcmd == [base EXCEPT
                        !.ssid = payloadField(cmdJson.payload, "ssid", SSID_MAX),
                        !.password =
                            payloadField(cmdJson.payload, "password", PASS_MAX)]
             fw   == [base EXCEPT
                        !.url = payloadField(cmdJson.payload, "url", CMD_URL_MAX),
                        !.version =
                            payloadField(cmdJson.payload, "version",
                                         CMD_VERSION_MAX)]
         IN  IF streq(Val(cmdJson.type), CMD_WIFI_UPDATE)
             THEN [wcmd EXCEPT !.valid = strlen(wcmd.ssid) # 0]
             ELSE IF streq(Val(cmdJson.type), CMD_FIRMWARE_UPDATE)
             THEN [fw EXCEPT !.valid = strlen(fw.url) # 0]
             ELSE [base EXCEPT !.valid = TRUE]

\* variant: a request that is not answered with 200 is sent once more
acknowledgeCommand_retries(wifiStatus, commandId, success, errorMessage, code) ==
    [id |-> commandId, success |-> success, msg |-> errorMessage,
     sent |-> wifiStatus = "connected",
     posts |-> IF wifiStatus # "connected" THEN 0
               ELSE IF code = 200 THEN 1 ELSE 2,
     delivered |-> wifiStatus = "connected" /\ code = 200]

\* acknowledgeCommand(commandId, success, errorMessage): the record of one
\* call.  No request is issued when WiFi is down; code is the status the
\* cloud answers to the request, posts the number of requests issued.
acknowledgeCommand(wifiStatus, commandId, success, errorMessage, code) ==
    [id |-> commandId, success |-> success, msg |-> errorMessage,
     sent |-> wifiStatus = "connected",
     posts |-> IF wifiStatus = "connected" THEN 1 ELSE 0,
     delivered |-> wifiStatus = "connected" /\ code = 200]

\* variant: HTTP_UPDATE_OK is reported as a success
performOTAUpdate_okIsSuccess(ret) == ret = "HTTP_UPDATE_OK"

\* performOTAUpdate(): ret is what ESPhttpUpdate.update returns when it
\* returns; every returning path ends in `return false`
performOTAUpdate(ret) == FALSE

\* ------------------------------------------------------------ heartbeat

\* responseDoc["success"] | false,  responseDoc["config_version"] | -1
jsonOr(o, dflt) == IF IsNull(o) THEN dflt ELSE Val(o)

\* variant: a 200 answer without a success member counts as success
sendHeartbeat_successByDefault(wifiStatus, rsp) ==
    LET response == [success |-> FALSE, config_version |-> -1,
                     command |-> ZeroCommand]
    IN  IF wifiStatus # "connected" THEN [response |-> response, posts |-> 0]
        ELSE IF rsp.code = 200 /\ rsp.parsed
        THEN [response |->
                [success |-> jsonOr(rsp.doc.success, TRUE),
                 config_version |-> jsonOr(rsp.doc.config_version, -1),
                 command |-> IF ~IsNull(rsp.doc.command)
                             THEN parseCommand(Val(rsp.doc.command))
                             ELSE ZeroCommand],
              posts |-> 1]
        ELSE [response |-> response, posts |-> 1]

\* variant: a request that is not answered with 200 is sent once more
sendHeartbeat_retriesOnce(wifiStatus, rsp) ==
    LET response == [success |-> FALSE, config_version |-> -1,
                     command |-> ZeroCommand]
    IN  IF wifiStatus # "connected" THEN [response |-> response, posts |-> 0]
        ELSE IF rsp.code = 200 /\ rsp.parsed
        THEN [response |->
                [success |-> jsonOr(rsp.doc.success, FALSE),
                 config_version |-> jsonOr(rsp.doc.config_version, -1),
                 command |-> IF ~IsNull(rsp.doc.command)
                             THEN parseCommand(Val(rsp.doc.command))
                             ELSE ZeroCommand],
              posts |-> 1]
        ELSE [response |-> response, posts |-> IF rsp.code = 200 THEN 1 ELSE 2]

\* variant: every 2xx status is read as a success
sendHeartbeat_any2xx(wifiStatus, rsp) ==
    LET response == [success |-> FALSE, config_version |-> -1,
                     command |-> ZeroCommand]
    IN  IF wifiStatus # "connected" THEN [response |-> response, posts |-> 0]
        ELSE IF rsp.code \in 200..299 /\ rsp.parsed
        THEN [response |->
                [success |-> jsonOr(rsp.doc.success, FALSE),
                 config_version |-> jsonOr(rsp.doc.config_version, -1),
                 command |-> IF ~IsNull(rsp.doc.command)
                             THEN parseCommand(Val(rsp.doc.command))
                             ELSE ZeroCommand],
              posts |-> 1]
        ELSE [response |-> response, posts |-> 1]

\* variant: an absent config_version reads as 0
sendHeartbeat_defaultZero(wifiStatus, rsp) ==
    LET response == [success |-> FALSE, config_version |-> -1,
                     command |-> ZeroCommand]
    IN  IF wifiStatus # "connected" THEN [response |-> response, posts |-> 0]
        ELSE IF rsp.code = 200 /\ rsp.parsed
        THEN [response |->
                [success |-> jsonOr(rsp.doc.success, FALSE),
                 config_version |-> jsonOr(rsp.doc.config_version, 0),
                 command |-> IF ~IsNull(rsp.doc.command)
                             THEN parseCommand(Val(rsp.doc.command))
                             ELSE ZeroCommand],
              posts |-> 1]
        ELSE [response |-> response, posts |-> 1]

\* variant: the body is read whatever the status code
sendHeartbeat_anyStatus(wifiStatus, rsp) ==
    LET response == [success |-> FALSE, config_version |-> -1,
                     command |-> ZeroCommand]
    IN  IF wifiStatus # "connected" THEN [response |-> response, posts |-> 0]
        ELSE IF rsp.parsed
        THEN [response |->
                [success |-> jsonOr(rsp.doc.success, FALSE),
                 config_version |-> jsonOr(rsp.doc.config_version, -1),
                 command |-> IF ~IsNull(rsp.doc.command)
                             THEN parseCommand(Val(rsp.doc.command))
                             ELSE ZeroCommand],
              posts |-> 1]
        ELSE [response |-> response, posts |-> 1]

\* sendHeartbeat().  rsp is what the network answers to the request:
\* [code, parsed, doc |-> [success, config_version, command]] (parsed: the
\* body is JSON that deserializeJson accepts), the members of doc optional.
\* The result
\* is the HeartbeatResponse and the number of requests issued.
sendHeartbeat(wifiStatus, rsp) ==
    LET response == [success |-> FALSE, config_version |-> -1,
                     command |-> ZeroCommand]
    IN  IF wifiStatus # "connected" THEN [response |-> response, posts |-> 0]
        ELSE IF rsp.code = 200 /\ rsp.parsed
        THEN [response |->
                [success |-> jsonOr(rsp.doc.success, FALSE),
                 config_version |-> jsonOr(rsp.doc.config_version, -1),
                 command |-> IF ~IsNull(rsp.doc.command)
                             THEN parseCommand(Val(rsp.doc.command))
                             ELSE ZeroCommand],
              posts |-> 1]
        ELSE [response |-> response, posts |-> 1]

\* ------------------------------------------------------ the environment

SSID_A == <<"A">>

PASS_A == <<"a","1">>

SSID_B == <<"B">>

PASS_B == <<"b","1">>

\* an SSID longer than the 32 characters a buffer holds
SSID_LONG == [i \in 1..(SSID_MAX + 2) |-> "x"]

NoPayload == [ssid |-> NULL, password |-> NULL, url |-> NULL, version |-> NULL]

\* the identity the device was provisioned with
DEVICE_ID == <<"P","1","-","E","1">>

DEVICE_KEY == <<"0","f">>

\* the command objects the cloud may embed in a heartbeat response
CloudCommands ==
    { [id |-> Some(<<"c","1">>), type |-> Some(CMD_RESET), payload |-> NoPayload],
      [id |-> Some(<<"c","2">>), type |-> Some(CMD_WIFI_UPDATE),
       payload |-> [NoPayload EXCEPT !.ssid = Some(SSID_B),
                                     !.password = Some(PASS_B)]],
      [id |-> Some(<<"c","3">>), type |-> Some(CMD_WIFI_UPDATE),
       payload |-> [NoPayload EXCEPT !.ssid = Some(SSID_LONG)]],
      [id |-> Some(<<"c","4">>), type |-> Some(CMD_WIFI_UPDATE),
       payload |-> [NoPayload EXCEPT !.password = Some(PASS_B)]],
      [id |-> Some(<<"c","5">>), type |-> Some(CMD_FIRMWARE_UPDATE),
       payload |-> [NoPayload EXCEPT !.url = Some(<<"h",":","/","f">>),
                                     !.version = Some(<<"v","9">>)]],
      [id |-> Some(<<"c","6">>), type |-> Some(CMD_FIRMWARE_UPDATE),
       payload |-> NoPayload],
      [id |-> Some(<<"c","7">>), type |-> Some(<<"p","i","n","g">>),
       payload |-> NoPayload],
      [id |-> NULL, type |-> Some(CMD_RESET), payload |-> NoPayload] }

\* the config_version values the cloud may report
CloudVersions == {1, 2}

NoDoc == [success |-> NULL, config_version |-> NULL, command |-> NULL]

\* the answers of the network to a heartbeat request
HeartbeatAnswers ==
    { [code |-> 500, parsed |-> FALSE, doc |-> NoDoc],
      [code |-> 500, parsed |-> TRUE,
       doc |-> [NoDoc EXCEPT !.config_version = Some(2)]],
      [code |-> 200, parsed |-> FALSE, doc |-> NoDoc],
      [code |-> 200, parsed |-> TRUE, doc |-> NoDoc],
      [code |-> 200, parsed |-> TRUE,
       doc |-> [NoDoc EXCEPT !.success = Some(TRUE)]],
      [code |-> 200, parsed |-> TRUE,
       doc |-> [NoDoc EXCEPT !.config_version = Some(2)]] }
    \cup { [code |-> 200, parsed |-> TRUE,
            doc |-> [success |-> Some(TRUE), config_version |-> Some(v),
                     command |-> c]] :
            v \in CloudVersions,
            c \in {NULL} \cup {Some(k) : k \in CloudCommands} }

Entry(t, p) == [sensor_type |-> t, port_id |-> p]

\* the sensor lists the cloud may return
List1 == << Entry(Some(S_temp), Some(<<"D","1">>)) >>

List6 ==
    << Entry(Some(S_unconfigured), Some(<<"D","3">>)),
       Entry(Some(S_soil_moisture \o <<"_","1">>), Some(<<"A","0">>)),
       Entry(Some(S_temp), NULL),
       Entry(Some(S_water_level), Some(<<"G","P","I","O","4">>)),
       Entry(Some(S_humidity), Some(<<"D","2">>)),
       Entry(Some(S_temp), Some(<<"D","5">>)),
       Entry(Some(S_water_level), Some(<<"D","6">>)) >>

\* the answers of the network to a configuration request
FetchAnswers ==
    { [code |-> 500, parsed |-> FALSE, doc |-> [kind |-> "none", items |-> <<>>]],
      [code |-> 200, parsed |-> FALSE, doc |-> [kind |-> "none", items |-> <<>>]],
      [code |-> 200, parsed |-> TRUE, doc |-> [kind |-> "object", items |-> <<>>]],
      [code |-> 200, parsed |-> TRUE, doc |-> [kind |-> "null", items |-> <<>>]],
      [code |-> 200, parsed |-> TRUE, doc |-> [kind |-> "array", items |-> <<>>]],
      [code |-> 200, parsed |-> TRUE, doc |-> [kind |-> "array", items |-> List1]],
      [code |-> 200, parsed |-> TRUE, doc |-> [kind |-> "array", items |-> List6]] }

\* the status codes the cloud answers to an acknowledgment
AckCodes == {200, 500}

\* what ESPhttpUpdate.update does: it restarts the device into the new
\* image, or returns one of its three results
UpdateResults ==
    {"RESTART", "HTTP_UPDATE_FAILED", "HTTP_UPDATE_NO_UPDATES", "HTTP_UPDATE_OK"}

\* ------------------------------------------------ stored configuration

\* the credential pairs, sensor tables and versions of the records that
\* CrcCache below holds
CachedCreds == {<<SSID_A, PASS_A>>}
    \cup {<<parseCommand(k).ssid, parseCommand(k).password>> : k \in CloudCommands}

CachedBackups == {ZeroBackup}
    \cup {[ssid |-> c[1], password |-> c[2], valid |-> TRUE] : c \in CachedCreds}

CachedSensors == {applyEntries(ZeroSensors, a.doc.items, 1, 0) : a \in FetchAnswers}

CachedVersions == {0, 1} \cup CloudVersions

CachedRecords ==
    { ConfigBytes([composite_device_id |-> DEVICE_ID,
                   wifi_ssid |-> c[1], wifi_password |-> c[2],
                   device_key |-> DEVICE_KEY,
                   sensors |-> ss, config_version |-> v, wifi_backup |-> b]) :
        c \in CachedCreds, b \in CachedBackups, ss \in CachedSensors,
        v \in CachedVersions }

\* the checksums of CachedRecords, computed once
CrcCache == {<<d, crc32Loop(d)>> : d \in CachedRecords}

\* the value of crc32Loop(d), looked up in CrcCache when d is one of the
\* records held there
crcLookup(d) ==
    IF \E e \in CrcCache : e[1] = d
    THEN (CHOOSE e \in CrcCache : e[1] = d)[2]
    ELSE crc32Loop(d)

\* calculateCRC32(data, length); the bytes of data are evaluated once
calculateCRC32(data) == CHOOSE c \in {crcLookup(d) : d \in {data}} : TRUE

\* The operations of config.cpp act on the pair st = [mem, ee]: the global
\* deviceConfig and the record stored in the EEPROM at EEPROM_OFFSET.

\* variant: the record is stored with the checksum it had
saveConfig_staleCrc(st) == [mem |-> st.mem, ee |-> st.mem]

\* saveConfig(): recompute crc32, then EEPROM.put and commit
saveConfig(st) ==
    LET c == [st.mem EXCEPT !.crc32 = calculateCRC32(ConfigBytes(st.mem))]
    IN  [mem |-> c, ee |-> c]

\* variant: the repaired config_version is kept in RAM and not stored
loadConfig_repairUnsaved(st) ==
    LET c == st.ee
    IN  IF c.config_version < 0 \/ c.config_version > CONFIG_VERSION_MAX
        THEN [mem |-> [c EXCEPT !.config_version = 0], ee |-> st.ee]
        ELSE [mem |-> c, ee |-> st.ee]

\* loadConfig(): EEPROM.get, then repair of an implausible config_version
loadConfig(st) ==
    LET c == st.ee
    IN  IF c.config_version < 0 \/ c.config_version > CONFIG_VERSION_MAX
        THEN saveConfig([mem |-> [c EXCEPT !.config_version = 0], ee |-> st.ee])
        ELSE [mem |-> c, ee |-> st.ee]

\* variant: the SSID is not looked at
validateConfig_anySsid(cfg) ==
    /\ calculateCRC32(ConfigBytes(cfg)) = cfg.crc32
    /\ strlen(cfg.composite_device_id) # 0

\* validateConfig()
validateConfig(cfg) ==
    /\ calculateCRC32(ConfigBytes(cfg)) = cfg.crc32
    /\ strlen(cfg.composite_device_id) # 0
    /\ strlen(cfg.wifi_ssid) # 0

\* variant: the backup is taken in RAM and not stored
backupCurrentWiFi_unsaved(st) ==
    [st EXCEPT !.mem.wifi_backup =
        [ssid     |-> strncpy(st.mem.wifi_ssid, SSID_MAX),
         password |-> strncpy(st.mem.wifi_password, PASS_MAX),
         valid    |-> TRUE]]

\* variant: the backup is stored under the checksum the record had
backupCurrentWiFi_staleCrc(st) ==
    LET c == [st.mem EXCEPT !.wifi_backup =
                [ssid     |-> strncpy(st.mem.wifi_ssid, SSID_MAX),
                 password |-> strncpy(st.mem.wifi_password, PASS_MAX),
                 valid    |-> TRUE]]
    IN  [mem |-> c, ee |-> c]

\* variant: a backup that is already valid is kept
backupCurrentWiFi_keepsFirst(st) ==
    IF st.mem.wifi_backup.valid THEN saveConfig(st)
    ELSE saveConfig([st EXCEPT !.mem.wifi_backup =
            [ssid     |-> strncpy(st.mem.wifi_ssid, SSID_MAX),
             password |-> strncpy(st.mem.wifi_password, PASS_MAX),
             valid    |-> TRUE]])

\* backupCurrentWiFi()
backupCurrentWiFi(st) ==
    saveConfig([st EXCEPT !.mem.wifi_backup =
        [ssid     |-> strncpy(st.mem.wifi_ssid, SSID_MAX),
         password |-> strncpy(st.mem.wifi_password, PASS_MAX),
         valid    |-> TRUE]])

\* variant: only the SSID is restored
restoreBackupWiFi_ssidOnly(st) ==
    IF ~st.mem.wifi_backup.valid THEN st
    ELSE saveConfig([st EXCEPT
            !.mem.wifi_ssid = strncpy(st.mem.wifi_backup.ssid, SSID_MAX)])

\* variant: the restore marks the backup as used
restoreBackupWiFi_clearsValid(st) ==
    IF ~st.mem.wifi_backup.valid THEN st
    ELSE saveConfig([st EXCEPT
            !.mem.wifi_ssid = strncpy(st.mem.wifi_backup.ssid, SSID_MAX),
            !.mem.wifi_password =
                strncpy(st.mem.wifi_backup.password, PASS_MAX),
            !.mem.wifi_backup.valid = FALSE])

\* restoreBackupWiFi()
restoreBackupWiFi(st) ==
    IF ~st.mem.wifi_backup.valid THEN st
    ELSE saveConfig([st EXCEPT
            !.mem.wifi_ssid = strncpy(st.mem.wifi_backup.ssid, SSID_MAX),
            !.mem.wifi_password =
                strncpy(st.mem.wifi_backup.password, PASS_MAX)])

\* hasValidWiFiBackup()
hasValidWiFiBackup(cfg) ==
    cfg.wifi_backup.valid /\ strlen(cfg.wifi_backup.ssid) > 0

\* String::trim(): leading and trailing blanks removed
RECURSIVE trim(_)
trim(s) ==
    IF Len(s) = 0 THEN s
    ELSE IF s[1] = " " THEN trim(Tail(s))
    ELSE IF s[Len(s)] = " " THEN trim(SubSeq(s, 1, Len(s) - 1))
    ELSE s

LowerCase == <<"a","b","c","d","e","g","i","o","p">>

UpperCase == <<"A","B","C","D","E","G","I","O","P">>

\* String::toUpperCase(), for the letters whose capital the model's
\* strings use
toUpperCase(s) ==
    [i \in 1..Len(s) |->
        IF \E k \in 1..Len(LowerCase) : LowerCase[k] = s[i]
        THEN UpperCase[CHOOSE k \in 1..Len(LowerCase) : LowerCase[k] = s[i]]
        ELSE s[i]]

\* saveConfigCallback(): compositeId is the portal parameter, ssid and psk
\* are WiFi.SSID() and WiFi.psk(), newKey is what generateDeviceKey() draws
saveConfigCallback(st, compositeId, ssid, psk, newKey) ==
    LET id == toUpperCase(trim(compositeId))
        m1 == IF Len(id) > 0
              THEN [st.mem EXCEPT !.composite_device_id = strncpy(id, ID_MAX)]
              ELSE st.mem
        m2 == [m1 EXCEPT !.wifi_ssid = strncpy(ssid, SSID_MAX),
                         !.wifi_password = strncpy(psk, PASS_MAX)]
        m3 == IF strlen(m2.device_key) = 0
              THEN [m2 EXCEPT !.device_key = newKey]
              ELSE m2
    IN  saveConfig([st EXCEPT !.mem =
            [m3 EXCEPT !.config_version = 0, !.wifi_backup.valid = FALSE]])

\* variant: the new credentials are set in RAM and not stored
storeNewCredentials_unsaved(st, newSsid, newPassword) ==
    [st EXCEPT
        !.mem.wifi_ssid = strncpy(newSsid, SSID_MAX),
        !.mem.wifi_password = strncpy(newPassword, PASS_MAX)]

\* variant: a change of network also resets config_version
storeNewCredentials_resetsVersion(st, newSsid, newPassword) ==
    saveConfig([st EXCEPT
        !.mem.wifi_ssid = strncpy(newSsid, SSID_MAX),
        !.mem.wifi_password = strncpy(newPassword, PASS_MAX),
        !.mem.config_version = 0])

\* updateWiFiCredentials(), step 2: the new credentials are stored
storeNewCredentials(st, newSsid, newPassword) ==
    saveConfig([st EXCEPT
        !.mem.wifi_ssid = strncpy(newSsid, SSID_MAX),
        !.mem.wifi_password = strncpy(newPassword, PASS_MAX)])

\* variant: applying a list also resets config_version
fetchAndApplyCloudConfig_resetsVersion(st, wifiStatus, rsp) ==
    IF wifiStatus # "connected" THEN [ok |-> FALSE, posts |-> 0, st |-> st]
    ELSE IF rsp.code # 200 THEN [ok |-> FALSE, posts |-> 1, st |-> st]
    ELSE IF ~rsp.parsed THEN [ok |-> FALSE, posts |-> 1, st |-> st]
    ELSE [ok |-> TRUE, posts |-> 1,
          st |-> saveConfig([st EXCEPT
                    !.mem.sensors =
                        applyEntries(ZeroSensors, asJsonArray(rsp.doc), 1, 0),
                    !.mem.config_version = 0])]

\* variant: the slots are filled in RAM and not stored
fetchAndApplyCloudConfig_unsaved(st, wifiStatus, rsp) ==
    IF wifiStatus # "connected" THEN [ok |-> FALSE, posts |-> 0, st |-> st]
    ELSE IF rsp.code # 200 THEN [ok |-> FALSE, posts |-> 1, st |-> st]
    ELSE IF ~rsp.parsed THEN [ok |-> FALSE, posts |-> 1, st |-> st]
    ELSE [ok |-> TRUE, posts |-> 1,
          st |-> [st EXCEPT !.mem.sensors =
                    applyEntries(ZeroSensors, asJsonArray(rsp.doc), 1, 0)]]

\* fetchAndApplyCloudConfig().  rsp is what the network answers to the
\* request: [code, parsed, doc] (parsed: deserializeJson reported no error).
\* The result holds the return value, the requests issued and the new
\* [mem, ee].
\* variant: the slots are not cleared before the list is applied
fetchAndApplyCloudConfig_noClear(st, wifiStatus, rsp) ==
    IF wifiStatus # "connected" THEN [ok |-> FALSE, posts |-> 0, st |-> st]
    ELSE IF rsp.code # 200 THEN [ok |-> FALSE, posts |-> 1, st |-> st]
    ELSE IF ~rsp.parsed THEN [ok |-> FALSE, posts |-> 1, st |-> st]
    ELSE [ok |-> TRUE, posts |-> 1,
          st |-> saveConfig([st EXCEPT !.mem.sensors =
                    applyEntries(st.mem.sensors, asJsonArray(rsp.doc), 1, 0)])]

fetchAndApplyCloudConfig(st, wifiStatus, rsp) ==
    IF wifiStatus # "connected" THEN [ok |-> FALSE, posts |-> 0, st |-> st]
    ELSE IF rsp.code # 200 THEN [ok |-> FALSE, posts |-> 1, st |-> st]
    ELSE IF ~rsp.parsed THEN [ok |-> FALSE, posts |-> 1, st |-> st]
    ELSE [ok |-> TRUE, posts |-> 1,
          st |-> saveConfig([st EXCEPT !.mem.sensors =
                    applyEntries(ZeroSensors, asJsonArray(rsp.doc), 1, 0)])]

\* ---------------------------------------------------------------- state

VARIABLES
    deviceConfig,   \* the global DeviceConfig in RAM
    eeprom,         \* the DeviceConfig stored in the EEPROM
    wifi,           \* the station: [status, ssid]
    pc,             \* position of the single thread of control
    hb,             \* the HeartbeatResponse of the current tick
    tick,           \* heartbeats sent in this process lifetime
    boots,          \* restarts so far
    hbNet,          \* history: the network's answer to this tick's heartbeat
    verAtHb,        \* history: deviceConfig.config_version at that heartbeat
    fetchLog,       \* history: the fetch of this tick
    pre,            \* history: [mem, ee] when the current operation began
    acks,           \* history: acknowledgeCommand calls of this executeCommand
    outcome,        \* history: how this tick's executeCommand ended
    rot,            \* history: the credential rotation of this tick
    executed,       \* history: [tick, id] of each command executed in this
                    \* lifetime (and what the update primitive did)
    restartCause    \* history: why the device restarts

progVars == <<deviceConfig, eeprom, wifi, pc, hb, tick, boots>>

histVars ==
    <<hbNet, verAtHb, fetchLog, pre, acks, outcome, rot, executed, restartCause>>

vars == <<progVars, histVars>>

store == [mem |-> deviceConfig, ee |-> eeprom]

\* a provisioned device: identifier, credentials and key set, one sensor
\* applied, config_version 1, no backup
ProvisionedConfig ==
    saveConfig([mem |->
        [composite_device_id |-> DEVICE_ID,
         wifi_ssid |-> SSID_A, wifi_password |-> PASS_A,
         device_key |-> DEVICE_KEY,
         sensors |-> applyEntries(ZeroSensors, List1, 1, 0),
         config_version |-> 1,
         wifi_backup |-> ZeroBackup,
         crc32 |-> {}],
      ee |-> <<>>]).mem

NoFetch == [calls |-> 0, posts |-> 0, rsp |-> NULL, ok |-> FALSE]

NoRotation == [trail |-> <<>>, waits |-> 0, elapsed |-> 0]

NoResponse ==
    [success |-> FALSE, config_version |-> -1, command |-> ZeroCommand]

Init ==
    /\ deviceConfig = ProvisionedConfig
    /\ eeprom = ProvisionedConfig
    /\ wifi = [status |-> "connected", ssid |-> SSID_A]
    /\ pc = "idle"
    /\ hb = NoResponse
    /\ tick = 0
    /\ boots = 0
    /\ hbNet = NULL
    /\ verAtHb = 1
    /\ fetchLog = NoFetch
    /\ pre = [mem |-> ProvisionedConfig, ee |-> ProvisionedConfig]
    /\ acks = <<>>
    /\ outcome = "none"
    /\ rot = NoRotation
    /\ executed = <<>>
    /\ restartCause = "none"

\* ------------------------------------------------- synchronization tick

\* the tick acts on the reported version when it is known (not the
\* sentinel -1) and differs from the stored one
configChanged(response, cfg) ==
    /\ response.config_version # -1
    /\ response.config_version # cfg.config_version

\* after a successful fetch the tick stores the reported version
adoptVersion(st, response) ==
    saveConfig([st EXCEPT !.mem.config_version = response.config_version])

\* loop(), step 1: the heartbeat of a tick
Heartbeat ==
    /\ pc = "idle"
    /\ tick < MaxTicks
    /\ \E rsp \in HeartbeatAnswers :
          LET r == sendHeartbeat(wifi.status, rsp)
          IN  /\ hb' = r.response
              /\ hbNet' = IF r.posts = 0 THEN NULL ELSE Some(rsp)
    /\ tick' = tick + 1
    /\ pc' = "sync"
    /\ verAtHb' = deviceConfig.config_version
    /\ fetchLog' = NoFetch
    /\ pre' = store
    /\ acks' = <<>>
    /\ outcome' = "none"
    /\ rot' = NoRotation
    /\ UNCHANGED <<deviceConfig, eeprom, wifi, boots, executed, restartCause>>

\* loop(), step 2: the full configuration is fetched on version drift
SyncConfig ==
    /\ pc = "sync"
    /\ pc' = "cmd"
    /\ pre' = store
    /\ IF configChanged(hb, deviceConfig)
       THEN \E rsp \in FetchAnswers :
              LET f   == fetchAndApplyCloudConfig(store, wifi.status, rsp)
                  st2 == IF f.ok THEN adoptVersion(f.st, hb) ELSE f.st
              IN  /\ deviceConfig' = st2.mem
                  /\ eeprom' = st2.ee
                  /\ fetchLog' = [calls |-> 1, posts |-> f.posts,
                                  rsp |-> IF f.posts = 0 THEN NULL ELSE Some(rsp),
                                  ok |-> f.ok]
       ELSE UNCHANGED <<deviceConfig, eeprom, fetchLog>>
    /\ UNCHANGED <<wifi, hb, tick, boots, hbNet, verAtHb, acks, outcome, rot,
                   executed, restartCause>>

\* ------------------------------------------------------- executeCommand

MSG_ROLLBACK == "WiFi connection failed, restored backup"

MSG_OTA == "OTA update failed"

MSG_UNKNOWN == "Unknown command type"

\* executeCommand, `if (!cmd.valid) return false;`
ExecInvalid ==
    /\ pc = "cmd"
    /\ ~hb.command.valid
    /\ pc' = "ret"
    /\ pre' = store
    /\ outcome' = "false"
    /\ UNCHANGED <<deviceConfig, eeprom, wifi, hb, tick, boots, hbNet, verAtHb,
                   fetchLog, acks, rot, executed, restartCause>>

\* variant: the restart is triggered first and nothing is acknowledged
ExecReset_restartsFirst ==
    /\ pc = "cmd"
    /\ hb.command.valid
    /\ streq(hb.command.type, CMD_RESET)
    /\ acks' = <<>>
    /\ pc' = "restart"
    /\ pre' = store
    /\ outcome' = "restart"
    /\ restartCause' = "reset"
    /\ executed' = Append(executed, [tick |-> tick, id |-> hb.command.id])
    /\ UNCHANGED <<deviceConfig, eeprom, wifi, hb, tick, boots, hbNet, verAtHb,
                   fetchLog, rot>>

\* executeCommand, CMD_RESET: acknowledge, delay(500), restart
ExecReset ==
    /\ pc = "cmd"
    /\ hb.command.valid
    /\ streq(hb.command.type, CMD_RESET)
    /\ \E code \in AckCodes :
          acks' = <<acknowledgeCommand(wifi.status, hb.command.id, TRUE, NULL,
                                       code)>>
    /\ pc' = "delay"
    /\ pre' = store
    /\ outcome' = "running"
    /\ restartCause' = "reset"
    /\ executed' = Append(executed, [tick |-> tick, id |-> hb.command.id])
    /\ UNCHANGED <<deviceConfig, eeprom, wifi, hb, tick, boots, hbNet, verAtHb,
                   fetchLog, rot>>

\* ESP.restart() after the delay(500) that follows an acknowledgment
RestartAfterAck ==
    /\ pc = "delay"
    /\ pc' = "restart"
    /\ outcome' = "restart"
    /\ UNCHANGED <<deviceConfig, eeprom, wifi, hb, tick, boots, hbNet, verAtHb,
                   fetchLog, pre, acks, rot, executed, restartCause>>

\* variant: success is acknowledged before the update starts
ExecFirmware_acksFirst ==
    /\ pc = "cmd"
    /\ hb.command.valid
    /\ streq(hb.command.type, CMD_FIRMWARE_UPDATE)
    /\ pre' = store
    /\ \E ret \in UpdateResults, code \in AckCodes :
          LET first == acknowledgeCommand(wifi.status, hb.command.id, TRUE,
                                          NULL, code)
          IN  /\ executed' = Append(executed, [tick |-> tick,
                                    id |-> hb.command.id, update |-> ret])
              /\ IF ret = "RESTART"
                 THEN /\ pc' = "restart"
                      /\ outcome' = "restart"
                      /\ restartCause' = "ota"
                      /\ acks' = <<first>>
                 ELSE /\ pc' = "ret"
                      /\ outcome' = "false"
                      /\ acks' = <<first,
                                   acknowledgeCommand(wifi.status, hb.command.id,
                                                      FALSE, Some(MSG_OTA), code)>>
                      /\ UNCHANGED restartCause
    /\ UNCHANGED <<deviceConfig, eeprom, wifi, hb, tick, boots, hbNet, verAtHb,
                   fetchLog, rot>>

\* executeCommand, CMD_FIRMWARE_UPDATE
ExecFirmware ==
    /\ pc = "cmd"
    /\ hb.command.valid
    /\ streq(hb.command.type, CMD_FIRMWARE_UPDATE)
    /\ pre' = store
    /\ \E ret \in UpdateResults, code \in AckCodes :
          /\ executed' = Append(executed, [tick |-> tick, id |-> hb.command.id,
                                           update |-> ret])
          /\ IF ret = "RESTART"
             THEN /\ pc' = "restart"
                  /\ outcome' = "restart"
                  /\ restartCause' = "ota"
                  /\ acks' = <<>>
             ELSE IF performOTAUpdate(ret)
             THEN /\ pc' = "ret"
                  /\ outcome' = "true"
                  /\ acks' = <<>>
                  /\ UNCHANGED restartCause
             ELSE /\ pc' = "ret"
                  /\ outcome' = "false"
                  /\ acks' = <<acknowledgeCommand(wifi.status, hb.command.id,
                                                 FALSE, Some(MSG_OTA), code)>>
                  /\ UNCHANGED restartCause
    /\ UNCHANGED <<deviceConfig, eeprom, wifi, hb, tick, boots, hbNet, verAtHb,
                   fetchLog, rot>>

\* variant: an unknown command is dropped without a word
ExecUnknown_silent ==
    /\ pc = "cmd"
    /\ hb.command.valid
    /\ ~streq(hb.command.type, CMD_RESET)
    /\ ~streq(hb.command.type, CMD_WIFI_UPDATE)
    /\ ~streq(hb.command.type, CMD_FIRMWARE_UPDATE)
    /\ acks' = <<>>
    /\ pc' = "ret"
    /\ pre' = store
    /\ outcome' = "false"
    /\ executed' = Append(executed, [tick |-> tick, id |-> hb.command.id])
    /\ UNCHANGED <<deviceConfig, eeprom, wifi, hb, tick, boots, hbNet, verAtHb,
                   fetchLog, rot, restartCause>>

\* variant: an unknown command is left pending and dispatched again
ExecUnknown_retries ==
    /\ pc = "cmd"
    /\ hb.command.valid
    /\ ~streq(hb.command.type, CMD_RESET)
    /\ ~streq(hb.command.type, CMD_WIFI_UPDATE)
    /\ ~streq(hb.command.type, CMD_FIRMWARE_UPDATE)
    /\ Len(executed) < MaxTicks + 1
    /\ \E code \in AckCodes :
          acks' = <<acknowledgeCommand(wifi.status, hb.command.id, FALSE,
                                       Some(MSG_UNKNOWN), code)>>
    /\ pc' = "cmd"
    /\ pre' = store
    /\ outcome' = "false"
    /\ executed' = Append(executed, [tick |-> tick, id |-> hb.command.id])
    /\ UNCHANGED <<deviceConfig, eeprom, wifi, hb, tick, boots, hbNet, verAtHb,
                   fetchLog, rot, restartCause>>

\* executeCommand, a type that is none of the three
ExecUnknown ==
    /\ pc = "cmd"
    /\ hb.command.valid
    /\ ~streq(hb.command.type, CMD_RESET)
    /\ ~streq(hb.command.type, CMD_WIFI_UPDATE)
    /\ ~streq(hb.command.type, CMD_FIRMWARE_UPDATE)
    /\ \E code \in AckCodes :
          acks' = <<acknowledgeCommand(wifi.status, hb.command.id, FALSE,
                                       Some(MSG_UNKNOWN), code)>>
    /\ pc' = "ret"
    /\ pre' = store
    /\ outcome' = "false"
    /\ executed' = Append(executed, [tick |-> tick, id |-> hb.command.id])
    /\ UNCHANGED <<deviceConfig, eeprom, wifi, hb, tick, boots, hbNet, verAtHb,
                   fetchLog, rot, restartCause>>

\* ------------------------------------------------ updateWiFiCredentials

\* variant: the rotation is acknowledged as a success whatever it returned
wifiUpdateAck_alwaysTrue(wifiStatus, commandId, ok, code) ==
    acknowledgeCommand(wifiStatus, commandId, TRUE, NULL, code)

\* executeCommand, CMD_WIFI_UPDATE: the acknowledgment that follows the
\* return of updateWiFiCredentials
wifiUpdateAck(wifiStatus, commandId, ok, code) ==
    IF ok THEN acknowledgeCommand(wifiStatus, commandId, TRUE, NULL, code)
    ELSE acknowledgeCommand(wifiStatus, commandId, FALSE, Some(MSG_ROLLBACK),
                            code)

\* executeCommand, CMD_WIFI_UPDATE, and step 1 of updateWiFiCredentials:
\* the current credentials are backed up
ExecWifiUpdate ==
    /\ pc = "cmd"
    /\ hb.command.valid
    /\ streq(hb.command.type, CMD_WIFI_UPDATE)
    /\ LET st == backupCurrentWiFi(store)
       IN  deviceConfig' = st.mem /\ eeprom' = st.ee
    /\ pc' = "rot_backup"
    /\ pre' = store
    /\ outcome' = "running"
    /\ rot' = [trail |-> <<"BACKUP">>, waits |-> 0, elapsed |-> 0]
    /\ executed' = Append(executed, [tick |-> tick, id |-> hb.command.id])
    /\ UNCHANGED <<wifi, hb, tick, boots, hbNet, verAtHb, fetchLog, acks,
                   restartCause>>

\* step 2: the new credentials are stored
RotStoreNew ==
    /\ pc = "rot_backup"
    /\ LET st == storeNewCredentials(store, hb.command.ssid, hb.command.password)
       IN  deviceConfig' = st.mem /\ eeprom' = st.ee
    /\ pc' = "rot_new"
    /\ rot' = [rot EXCEPT !.trail = Append(@, "ATTEMPT_NEW")]
    /\ UNCHANGED <<wifi, hb, tick, boots, hbNet, verAtHb, fetchLog, pre, acks,
                   outcome, executed, restartCause>>

\* variant: the status is not read again after the wait, and the restore
\* follows whether or not the station joined
RotJoinNew_restoresAnyway ==
    /\ pc = "rot_new"
    /\ \E joined \in BOOLEAN :
          /\ joined \/ rot.elapsed = WaitPolls
          /\ wifi' = [status |-> IF joined THEN "connected" ELSE "disconnected",
                      ssid |-> hb.command.ssid]
    /\ rot' = [rot EXCEPT !.waits = @ + 1, !.elapsed = 0]
    /\ pc' = "rot_failed"
    /\ UNCHANGED <<deviceConfig, eeprom, hb, tick, boots, hbNet, verAtHb,
                   fetchLog, pre, acks, outcome, executed, restartCause>>

\* steps 3 and 4: disconnect, WiFi.begin(new), and the exit of the wait
\* loop, with the station connected or at WIFI_CONNECT_TIMEOUT; on success updateWiFiCredentials returns true and
\* executeCommand acknowledges
RotJoinNew ==
    /\ pc = "rot_new"
    /\ \E joined \in BOOLEAN, code \in AckCodes :
          /\ joined \/ rot.elapsed = WaitPolls
          /\ wifi' = [status |-> IF joined THEN "connected" ELSE "disconnected",
                      ssid |-> hb.command.ssid]
          /\ IF joined
             THEN /\ rot' = [trail |-> Append(rot.trail, "COMMITTED"),
                             waits |-> rot.waits + 1, elapsed |-> 0]
                  /\ acks' = Append(acks, wifiUpdateAck(wifi'.status,
                                        hb.command.id, TRUE, code))
                  /\ pc' = "delay"
                  /\ restartCause' = "wifi_update"
             ELSE /\ rot' = [rot EXCEPT !.waits = @ + 1, !.elapsed = 0]
                  /\ pc' = "rot_failed"
                  /\ UNCHANGED <<acks, restartCause>>
    /\ UNCHANGED <<deviceConfig, eeprom, hb, tick, boots, hbNet, verAtHb,
                   fetchLog, pre, outcome, executed>>

\* variant: the elapsed time of a wait never advances
RotPoll_stuck ==
    /\ pc \in {"rot_new", "rot_restored"}
    /\ rot.elapsed < WaitPolls
    /\ UNCHANGED <<deviceConfig, eeprom, wifi, pc, hb, tick, boots, histVars>>

\* one turn of either wait loop: the station is not connected, the timeout
\* has not passed, delay(500)
RotPoll ==
    /\ pc \in {"rot_new", "rot_restored"}
    /\ rot.elapsed < WaitPolls
    /\ rot' = [rot EXCEPT !.elapsed = @ + 1]
    /\ UNCHANGED <<deviceConfig, eeprom, wifi, pc, hb, tick, boots, hbNet,
                   verAtHb, fetchLog, pre, acks, outcome, executed,
                   restartCause>>

\* step 5: the backup is restored
RotRestore ==
    /\ pc = "rot_failed"
    /\ LET st == restoreBackupWiFi(store)
       IN  deviceConfig' = st.mem /\ eeprom' = st.ee
    /\ pc' = "rot_restored"
    /\ rot' = [rot EXCEPT !.trail = Append(@, "RESTORE_BACKUP")]
    /\ UNCHANGED <<wifi, hb, tick, boots, hbNet, verAtHb, fetchLog, pre, acks,
                   outcome, executed, restartCause>>

\* variant: a failed rejoin returns false like a successful one
RotRejoin_returnsOnFailure ==
    /\ pc = "rot_restored"
    /\ \E joined \in BOOLEAN, code \in AckCodes :
          /\ joined \/ rot.elapsed = WaitPolls
          /\ wifi' = [status |-> IF joined THEN "connected" ELSE "disconnected",
                      ssid |-> deviceConfig.wifi_ssid]
          /\ rot' = [trail |-> Append(rot.trail, IF joined THEN "RECONNECTED"
                                                  ELSE "FATAL"),
                     waits |-> rot.waits + 1, elapsed |-> 0]
          /\ acks' = Append(acks, wifiUpdateAck(wifi'.status, hb.command.id,
                                                FALSE, code))
    /\ pc' = "ret"
    /\ outcome' = "false"
    /\ UNCHANGED <<deviceConfig, eeprom, hb, tick, boots, hbNet, verAtHb,
                   fetchLog, pre, executed, restartCause>>

\* step 6: WiFi.begin(original) and the exit of the wait loop, with the
\* station connected or at WIFI_CONNECT_TIMEOUT; connected:
\* updateWiFiCredentials returns false and executeCommand acknowledges the
\* failure; not connected: delay(1000) and ESP.restart()
RotRejoin ==
    /\ pc = "rot_restored"
    /\ \E joined \in BOOLEAN, code \in AckCodes :
          /\ joined \/ rot.elapsed = WaitPolls
          /\ wifi' = [status |-> IF joined THEN "connected" ELSE "disconnected",
                      ssid |-> deviceConfig.wifi_ssid]
          /\ IF joined
             THEN /\ rot' = [trail |-> Append(rot.trail, "RECONNECTED"),
                             waits |-> rot.waits + 1, elapsed |-> 0]
                  /\ acks' = Append(acks, wifiUpdateAck(wifi'.status,
                                        hb.command.id, FALSE, code))
                  /\ pc' = "ret"
                  /\ outcome' = "false"
                  /\ UNCHANGED restartCause
             ELSE /\ rot' = [trail |-> Append(rot.trail, "FATAL"),
                             waits |-> rot.waits + 1, elapsed |-> 0]
                  /\ pc' = "restart"
                  /\ outcome' = "restart"
                  /\ restartCause' = "fatal"
                  /\ UNCHANGED acks
    /\ UNCHANGED <<deviceConfig, eeprom, hb, tick, boots, hbNet, verAtHb,
                   fetchLog, pre, executed>>

RotationPcs == {"rot_backup", "rot_new", "rot_failed", "rot_restored"}

\* loop() returns: the HeartbeatResponse of the tick goes out of scope and
\* the thread waits for the next heartbeat
EndTick ==
    /\ pc = "ret"
    /\ pc' = "idle"
    /\ hb' = NoResponse
    /\ hbNet' = NULL
    /\ verAtHb' = deviceConfig.config_version
    /\ fetchLog' = NoFetch
    /\ pre' = store
    /\ acks' = <<>>
    /\ outcome' = "none"
    /\ rot' = NoRotation
    /\ UNCHANGED <<deviceConfig, eeprom, wifi, tick, boots, executed,
                   restartCause>>

\* ------------------------------------------------------------ environment

\* power is lost in the middle of a rotation; the device boots again
PowerLoss ==
    /\ pc \in RotationPcs
    /\ pc' = "restart"
    /\ outcome' = "power"
    /\ restartCause' = "power"
    /\ UNCHANGED <<deviceConfig, eeprom, wifi, hb, tick, boots, hbNet, verAtHb,
                   fetchLog, pre, acks, rot, executed>>

\* the association is lost while the thread waits on the network
LinkDown ==
    /\ pc \in {"idle", "sync", "cmd"}
    /\ wifi.status = "connected"
    /\ wifi' = [wifi EXCEPT !.status = "disconnected"]
    /\ UNCHANGED <<deviceConfig, eeprom, pc, hb, tick, boots, histVars>>

\* the station reconnects by itself between two ticks
LinkUp ==
    /\ pc = "idle"
    /\ wifi.status = "disconnected"
    /\ wifi' = [wifi EXCEPT !.status = "connected"]
    /\ UNCHANGED <<deviceConfig, eeprom, pc, hb, tick, boots, histVars>>

\* setup() after a restart: loadConfig(), then the boot-time connection to
\* the stored network, which may or may not succeed
Boot ==
    /\ pc = "restart"
    /\ boots < MaxBoots
    /\ LET st == loadConfig(store)
       IN  /\ deviceConfig' = st.mem
           /\ eeprom' = st.ee
           /\ pre' = st
           /\ verAtHb' = st.mem.config_version
           /\ \E joined \in BOOLEAN :
                 wifi' = [status |-> IF joined THEN "connected"
                                     ELSE "disconnected",
                          ssid |-> st.mem.wifi_ssid]
    /\ pc' = "idle"
    /\ hb' = NoResponse
    /\ tick' = 0
    /\ boots' = boots + 1
    /\ hbNet' = NULL
    /\ fetchLog' = NoFetch
    /\ acks' = <<>>
    /\ outcome' = "none"
    /\ rot' = NoRotation
    /\ executed' = <<>>
    /\ restartCause' = "none"

Next ==
    \/ Heartbeat
    \/ SyncConfig
    \/ ExecInvalid
    \/ ExecReset
    \/ RestartAfterAck
    \/ ExecWifiUpdate
    \/ RotStoreNew
    \/ RotPoll
    \/ RotJoinNew
    \/ RotRestore
    \/ RotRejoin
    \/ ExecFirmware
    \/ ExecUnknown
    \/ EndTick
    \/ PowerLoss
    \/ LinkDown
    \/ LinkUp
    \/ Boot

Spec == Init /\ [][Next]_vars

\* ------------------------------------------------ credential rotation

Creds(cfg) == <<cfg.wifi_ssid, cfg.wifi_password>>

BackupCreds(cfg) == <<cfg.wifi_backup.ssid, cfg.wifi_backup.password>>

CommandCreds == <<hb.command.ssid, hb.command.password>>

Last(seq) == seq[Len(seq)]

\* the rotation of this tick has reached the step named s
RotationAt(s) == rot.trail # <<>> /\ Last(rot.trail) = s

\* C1 (rollback): when the join of the new network has failed and the rejoin
\* of the original network succeeds, updateWiFiCredentials returns false and
\* executeCommand returns with the stored and the in-memory SSID and
\* passphrase equal to those held before the command, the station connected
\* to the original network, exactly one acknowledgment sent, carrying
\* success=false and the rollback reason, and no restart triggered.
C1_Rollback ==
    [][(pc = "rot_restored" /\ pc' = "ret") =>
          /\ Creds(eeprom') = Creds(pre.ee)
          /\ Creds(deviceConfig') = Creds(pre.mem)
          /\ Creds(eeprom') = Creds(deviceConfig')
          /\ wifi' = [status |-> "connected", ssid |-> pre.mem.wifi_ssid]
          /\ Len(acks') = 1
          /\ acks'[1].id = hb.command.id
          /\ acks'[1].sent
          /\ ~acks'[1].success
          /\ acks'[1].msg = Some(MSG_ROLLBACK)
          /\ outcome' = "false"
          /\ restartCause' = "none"]_vars

C1_Witness ==
    /\ RotationAt("RECONNECTED")
    /\ rot.waits = 2
    /\ outcome = "false"
    /\ Creds(eeprom) = <<SSID_A, PASS_A>>
    /\ hb.command.ssid = SSID_B

\* C2 (commit): when the join of the new network succeeds, the stored SSID
\* and passphrase are those of the command, the stored backup is marked valid
\* and holds the credentials held before the command, an acknowledgment with
\* success=true has been sent, and the restart comes after it.
C2_Commit ==
    (pc \in {"delay", "restart"} /\ restartCause = "wifi_update") =>
        /\ RotationAt("COMMITTED")
        /\ Creds(eeprom) = CommandCreds
        /\ eeprom.wifi_backup.valid
        /\ BackupCreds(eeprom) = Creds(pre.ee)
        /\ Len(acks) = 1
        /\ acks[1].id = hb.command.id
        /\ acks[1].success
        /\ acks[1].sent

C2_Witness ==
    /\ pc = "restart"
    /\ restartCause = "wifi_update"
    /\ Creds(eeprom) = <<SSID_B, PASS_B>>
    /\ BackupCreds(eeprom) = <<SSID_A, PASS_A>>

\* C3 (fatal): when the rejoin of the original network ends the rotation,
\* either the station is connected and the procedure returns, or the device
\* restarts; it never returns disconnected, and at the restart the stored
\* and in-memory SSID and passphrase are the ones held before the rotation.
C3_FatalRestarts ==
    [][(pc = "rot_restored" /\ pc' # "rot_restored") =>
          \/ pc' = "ret" /\ wifi'.status = "connected"
          \/ /\ pc' = "restart"
             /\ wifi'.status = "disconnected"
             /\ Creds(eeprom') = Creds(pre.ee)
             /\ Creds(deviceConfig') = Creds(pre.ee)]_vars

C3_Witness ==
    /\ RotationAt("FATAL")
    /\ pc = "restart"
    /\ wifi.status = "disconnected"
    /\ Creds(eeprom) = <<SSID_A, PASS_A>>
    /\ Creds(eeprom) # CommandCreds

\* C4 (rollback safety of the stored record): at every point of a rotation,
\* and at a restart that interrupts or ends it, the EEPROM holds either the
\* original SSID and passphrase, or the new ones together with a backup that
\* is marked valid and equals the original ones; when the new credentials
\* have not yet been stored the backup already is.
C4_StoredRecordSafe ==
    rot.trail # <<>> =>
        /\ \/ Creds(eeprom) = Creds(pre.ee)
           \/ /\ Creds(eeprom) = CommandCreds
              /\ eeprom.wifi_backup.valid
              /\ BackupCreds(eeprom) = Creds(pre.ee)
        /\ pc = "rot_backup" =>
              /\ eeprom.wifi_backup.valid
              /\ BackupCreds(eeprom) = Creds(pre.ee)
              /\ Creds(eeprom) = Creds(pre.ee)

C4_Witness ==
    /\ pc = "restart"
    /\ restartCause = "power"
    /\ Creds(eeprom) = <<SSID_B, PASS_B>>
    /\ Creds(pre.ee) = <<SSID_A, PASS_A>>
    /\ BackupCreds(eeprom) = <<SSID_A, PASS_A>>

HeartbeatReported ==
    IF IsNull(hbNet) THEN NULL
    ELSE IF Val(hbNet).code = 200 /\ Val(hbNet).parsed
    THEN Val(hbNet).doc.config_version
    ELSE NULL

\* C6: a tick issues at most one fetch of the sensor configuration, and only
\* when the answer to its heartbeat carried a config_version different from
\* the stored one; a tick whose heartbeat carried the stored version issues
\* none.
C6_FetchOnlyOnDrift ==
    /\ fetchLog.calls <= 1
    /\ fetchLog.posts <= fetchLog.calls
    /\ fetchLog.calls = 1 =>
          /\ ~IsNull(HeartbeatReported)
          /\ Val(HeartbeatReported) # verAtHb
          /\ hb.config_version = Val(HeartbeatReported)

C6_Witness ==
    /\ tick = 2
    /\ pc = "cmd"
    /\ fetchLog.calls = 0
    /\ HeartbeatReported = Some(2)
    /\ verAtHb = 2
    /\ deviceConfig.sensors # ProvisionedConfig.sensors

FetchedArray ==
    /\ ~IsNull(fetchLog.rsp)
    /\ Val(fetchLog.rsp).code = 200
    /\ Val(fetchLog.rsp).parsed
    /\ Val(fetchLog.rsp).doc.kind = "array"

\* C8: when the answer to the configuration request is anything but a 200
\* carrying a JSON array, fetchAndApplyCloudConfig leaves the in-memory
\* sensor slots and the stored record as they were before the call.
C8_FetchAllOrNothing ==
    (pc = "cmd" /\ fetchLog.calls = 1 /\ ~FetchedArray) =>
        /\ deviceConfig.sensors = pre.mem.sensors
        /\ eeprom = pre.ee

\* ------------------------------------------------------ command dispatch

Dispatched ==
    /\ hb.command.valid
    /\ outcome \in {"true", "false", "restart"} \/ pc = "delay"

InvalidCommandReceived ==
    /\ ~IsNull(hbNet)
    /\ Val(hbNet).code = 200
    /\ Val(hbNet).parsed
    /\ ~IsNull(Val(hbNet).doc.command)
    /\ ~hb.command.valid

\* C11: when the heartbeat carried a command that parseCommand marked
\* invalid (no id or type, wifi_update without SSID, firmware_update without
\* URL), executeCommand has, at its return, issued an acknowledgment with
\* success=false, has executed nothing and has triggered no restart.
C11_InvalidCommandReported ==
    (pc = "ret" /\ InvalidCommandReceived) =>
        /\ \E i \in 1..Len(acks) : ~acks[i].success
        /\ \A i \in 1..Len(executed) : executed[i].tick # tick
        /\ outcome = "false"
        /\ restartCause = "none"

\* ------------------------------------ the configuration store by itself

\* clearConfig(): every byte of the record is zero
BlankRecord ==
    [composite_device_id |-> <<>>, wifi_ssid |-> <<>>, wifi_password |-> <<>>,
     device_key |-> <<>>, sensors |-> ZeroSensors, config_version |-> 0,
     wifi_backup |-> ZeroBackup, crc32 |-> {}]

\* variant: the blank record is stored through saveConfig()
clearConfig_viaSave(st) == saveConfig([st EXCEPT !.mem = BlankRecord])

\* clearConfig(): memset of deviceConfig, then EEPROM.put and commit
clearConfig(st) == [mem |-> BlankRecord, ee |-> BlankRecord]

\* the config_version values of the records the store is exercised with:
\* below, inside, at the upper limit of and above the plausible range
StoreVersions == {-1, 1, CONFIG_VERSION_MAX, CONFIG_VERSION_MAX + 1}

\* the in-memory records the store is exercised with
RamRecords ==
    {BlankRecord} \cup
    { [composite_device_id |-> id, wifi_ssid |-> ssid,
       wifi_password |-> PASS_A, device_key |-> DEVICE_KEY,
       sensors |-> applyEntries(ZeroSensors, List1, 1, 0),
       config_version |-> v, wifi_backup |-> b, crc32 |-> {}] :
        id \in {<<>>, DEVICE_ID}, ssid \in {<<>>, SSID_A}, v \in StoreVersions,
        b \in {ZeroBackup, [ssid |-> SSID_B, password |-> PASS_B, valid |-> TRUE]} }

RECURSIVE Pow2(_)
Pow2(k) == IF k = 0 THEN 1 ELSE 2 * Pow2(k - 1)

\* bit k (k < 31) of a non-negative number inverted
flipBit(u, k) ==
    IF (u \div Pow2(k)) % 2 = 1 THEN u - Pow2(k) ELSE u + Pow2(k)

\* bit k of a 32-bit two's complement int inverted
flipInt32(n, k) ==
    IF k = 31
    THEN IF n >= 0 THEN (n - 2147483647) - 1 ELSE (n + 2147483647) + 1
    ELSE IF n >= 0 THEN flipBit(n, k)
    ELSE (flipBit((n + 2147483647) + 1, k) - 2147483647) - 1

\* the bits of config_version whose inversion is followed
VersionFlipBits == {0, 13, 14, 31}

\* the records that differ from cfg in one bit: of config_version, of the
\* checksum, of a sensor's pin, of the backup's validity flag
CorruptedRecords(cfg) ==
    {[cfg EXCEPT !.config_version = flipInt32(@, k)] : k \in VersionFlipBits}
    \cup {[cfg EXCEPT !.crc32 = Xor(@, {k})] : k \in {0, 31}}
    \cup {[cfg EXCEPT !.sensors[1].pin = flipBit(@, 0)],
          [cfg EXCEPT !.wifi_backup.valid = ~@]}

\* what generateDeviceKey() may draw: KEY_LEN hexadecimal digits
GeneratedKey == [i \in 1..KEY_LEN |-> IF i % 2 = 1 THEN "0" ELSE "f"]

\* the variables the store does not touch
StoreIdle ==
    UNCHANGED <<wifi, hb, tick, boots, hbNet, verAtHb, fetchLog, acks, outcome,
                rot, executed, restartCause>>

\* a record is put into RAM; the EEPROM is blank
StoreInit ==
    /\ deviceConfig \in RamRecords
    /\ eeprom = BlankRecord
    /\ wifi = [status |-> "connected", ssid |-> SSID_A]
    /\ pc = "ram"
    /\ hb = NoResponse
    /\ tick = 0
    /\ boots = 0
    /\ hbNet = NULL
    /\ verAtHb = 0
    /\ fetchLog = NoFetch
    /\ pre = [mem |-> deviceConfig, ee |-> BlankRecord]
    /\ acks = <<>>
    /\ outcome = "none"
    /\ rot = NoRotation
    /\ executed = <<>>
    /\ restartCause = "none"

\* saveConfig()
StSave ==
    /\ pc = "ram"
    /\ LET st == saveConfig(store)
       IN  deviceConfig' = st.mem /\ eeprom' = st.ee
    /\ pc' = "stored"
    /\ pre' = store
    /\ StoreIdle

\* one bit of the stored record is inverted while the device is off
StCorrupt ==
    /\ pc = "stored"
    /\ eeprom' \in CorruptedRecords(eeprom)
    /\ pc' = "corrupt"
    /\ pre' = store
    /\ UNCHANGED deviceConfig
    /\ StoreIdle

\* loadConfig() at boot
StLoad ==
    /\ pc \in {"stored", "corrupt", "cleared"}
    /\ LET st == loadConfig(store)
       IN  deviceConfig' = st.mem /\ eeprom' = st.ee
    /\ pc' = IF pc = "cleared" THEN "reloaded" ELSE "loaded"
    /\ pre' = store
    /\ StoreIdle

\* clearConfig(): the factory reset of a running device
StClear ==
    /\ pc = "loaded"
    /\ LET st == clearConfig(store)
       IN  deviceConfig' = st.mem /\ eeprom' = st.ee
    /\ pc' = "cleared"
    /\ pre' = store
    /\ StoreIdle

\* saveConfigCallback(): the portal provisions the device
StProvision ==
    /\ pc = "loaded"
    /\ \E id \in {<<>>, <<" ","p","1","-","e","1"," ">>} :
          LET st == saveConfigCallback(store, id, SSID_B, PASS_B, GeneratedKey)
          IN  deviceConfig' = st.mem /\ eeprom' = st.ee
    /\ pc' = "provisioned"
    /\ pre' = store
    /\ StoreIdle

\* backupCurrentWiFi() on a device whose configuration validates
StBackup ==
    /\ pc = "loaded"
    /\ validateConfig(deviceConfig)
    /\ LET st == backupCurrentWiFi(store)
       IN  deviceConfig' = st.mem /\ eeprom' = st.ee
    /\ pc' = "done"
    /\ pre' = store
    /\ StoreIdle

\* restoreBackupWiFi() on a device whose configuration validates
StRestore ==
    /\ pc = "loaded"
    /\ validateConfig(deviceConfig)
    /\ LET st == restoreBackupWiFi(store)
       IN  deviceConfig' = st.mem /\ eeprom' = st.ee
    /\ pc' = "done"
    /\ pre' = store
    /\ StoreIdle

\* updateWiFiCredentials(), step 2, on a device whose configuration
\* validates
StStoreNew ==
    /\ pc = "loaded"
    /\ validateConfig(deviceConfig)
    /\ LET st == storeNewCredentials(store, SSID_B, PASS_B)
       IN  deviceConfig' = st.mem /\ eeprom' = st.ee
    /\ pc' = "done"
    /\ pre' = store
    /\ StoreIdle

\* fetchAndApplyCloudConfig() on a device whose configuration validates
StFetch ==
    /\ pc = "loaded"
    /\ validateConfig(deviceConfig)
    /\ \E rsp \in FetchAnswers :
          LET f == fetchAndApplyCloudConfig(store, wifi.status, rsp)
          IN  deviceConfig' = f.st.mem /\ eeprom' = f.st.ee
    /\ pc' = "done"
    /\ pre' = store
    /\ StoreIdle

\* validateConfig() on the record in memory: before any save, after a load
StValidate ==
    /\ pc \in {"ram", "loaded", "reloaded"}
    /\ outcome' = IF validateConfig(deviceConfig) THEN "valid" ELSE "invalid"
    /\ pc' = "validated"
    /\ pre' = store
    /\ UNCHANGED <<deviceConfig, eeprom, wifi, hb, tick, boots, hbNet, verAtHb,
                   fetchLog, acks, rot, executed, restartCause>>

StoreNext ==
    \/ StValidate
    \/ StSave
    \/ StCorrupt
    \/ StLoad
    \/ StClear
    \/ StProvision
    \/ StBackup
    \/ StRestore
    \/ StStoreNew
    \/ StFetch

SpecStore == StoreInit /\ [][StoreNext]_vars

\* the stored checksum is the checksum of the record's other fields
ChecksumMatches(cfg) == calculateCRC32(ConfigBytes(cfg)) = cfg.crc32

\* C12: when the checksum of the stored record does not match its other
\* fields (as after the inversion of one bit, a bit of config_version
\* included), validateConfig() returns false after loadConfig().
C12_CorruptionDetected ==
    (pc = "loaded" /\ ~ChecksumMatches(pre.ee)) => ~validateConfig(deviceConfig)

\* loadConfig() has read back the very record that saveConfig() wrote
SavedAndLoaded == pc = "loaded" /\ pre.ee = pre.mem

\* the record has a device identifier and an SSID
Identified(cfg) ==
    strlen(cfg.composite_device_id) # 0 /\ strlen(cfg.wifi_ssid) # 0

\* C13 as stated: for every record with a non-empty device identifier and a
\* non-empty SSID, saveConfig() followed by loadConfig() yields an in-memory
\* record equal to the saved one in every field, and validateConfig() then
\* returns true.
C13_RoundTrip ==
    (SavedAndLoaded /\ Identified(pre.mem)) =>
        deviceConfig = pre.mem /\ validateConfig(deviceConfig)

\* C13 as amended: the round trip is the identity for the records whose
\* config_version lies in 0..10000; for the others loadConfig() returns the
\* saved record with config_version 0 and a fresh checksum, and has stored
\* it.  In both cases validateConfig() returns true.
C13_RoundTripInRange ==
    (SavedAndLoaded /\ Identified(pre.mem)) =>
        /\ validateConfig(deviceConfig)
        /\ eeprom = deviceConfig
        /\ IF pre.mem.config_version \in 0..CONFIG_VERSION_MAX
           THEN deviceConfig = pre.mem
           ELSE /\ deviceConfig.config_version = 0
                /\ [deviceConfig EXCEPT !.config_version = 0, !.crc32 = {}]
                      = [pre.mem EXCEPT !.config_version = 0, !.crc32 = {}]

C13_Witness ==
    /\ SavedAndLoaded
    /\ pre.mem.config_version = CONFIG_VERSION_MAX
    /\ deviceConfig.config_version = CONFIG_VERSION_MAX
    /\ deviceConfig.composite_device_id = DEVICE_ID
    /\ deviceConfig.wifi_backup.valid
    /\ validateConfig(deviceConfig)

\* ------------------------------------------- the sensor mapper by itself

S_ph == <<"p","h">>

\* a sensor type name of 32 characters, one more than a slot's name holds
S_temp_long ==
    S_temp \o S_temp \o S_temp \o S_temp \o S_temp \o S_temp \o S_temp \o S_temp

\* the entries the mapper is exercised with: applied ones, skipped ones
\* (unconfigured, no port_id), a port that maps to GPIO 0 and a sensor type
\* the firmware does not know
MapperEntries ==
    { Entry(Some(S_temp), Some(<<"D","1">>)),
      Entry(Some(S_unconfigured), Some(<<"D","3">>)),
      Entry(Some(S_temp), NULL),
      Entry(Some(S_temp), Some(<<"D","3">>)),
      Entry(Some(S_ph), Some(<<"G","P","I","O","4">>)),
      Entry(Some(S_water_level), Some(<<"A","0">>)),
      Entry(Some(S_soil_moisture), Some(<<"1","2">>)),
      Entry(Some(S_temp_long), Some(<<"D","7">>)) }

\* four entries that are all applied
FourApplied ==
    << Entry(Some(S_humidity), Some(<<"D","2">>)),
       Entry(Some(S_water_level), Some(<<"D","6">>)),
       Entry(Some(S_soil_moisture), Some(<<"A","0">>)),
       Entry(Some(S_temp), Some(<<"D","5">>)) >>

\* the lists the mapper is exercised with: up to two entries, and lists of
\* five, six and seven entries
MapperLists ==
    {<<>>, List6}
    \cup {<<a>> : a \in MapperEntries}
    \cup {<<a, b>> : a \in MapperEntries, b \in MapperEntries}
    \cup {<<a>> \o FourApplied : a \in MapperEntries}
    \cup {FourApplied \o <<a, b>> : a \in MapperEntries, b \in MapperEntries}

\* the answers of the network the mapper is exercised with
MapperAnswers ==
    FetchAnswers
    \cup {[code |-> 200, parsed |-> TRUE, doc |-> [kind |-> "array", items |-> l]] :
            l \in MapperLists}

\* a provisioned device, connected or not
MapperInit ==
    /\ deviceConfig = ProvisionedConfig
    /\ eeprom = ProvisionedConfig
    /\ wifi \in {[status |-> w, ssid |-> SSID_A] : w \in {"connected", "disconnected"}}
    /\ pc = "sync"
    /\ hb = NoResponse
    /\ tick = 0
    /\ boots = 0
    /\ hbNet = NULL
    /\ verAtHb = 1
    /\ fetchLog = NoFetch
    /\ pre = [mem |-> ProvisionedConfig, ee |-> ProvisionedConfig]
    /\ acks = <<>>
    /\ outcome = "none"
    /\ rot = NoRotation
    /\ executed = <<>>
    /\ restartCause = "none"

\* fetchAndApplyCloudConfig()
MapFetch ==
    /\ pc = "sync"
    /\ \E rsp \in MapperAnswers :
          LET f == fetchAndApplyCloudConfig(store, wifi.status, rsp)
          IN  /\ deviceConfig' = f.st.mem
              /\ eeprom' = f.st.ee
              /\ fetchLog' = [calls |-> 1, posts |-> f.posts,
                              rsp |-> IF f.posts = 0 THEN NULL ELSE Some(rsp),
                              ok |-> f.ok]
    /\ pc' = "cmd"
    /\ pre' = store
    /\ UNCHANGED <<wifi, hb, tick, boots, hbNet, verAtHb, acks, outcome, rot,
                   executed, restartCause>>

MapperNext == MapFetch

SpecMapper == MapperInit /\ [][MapperNext]_vars

\* the entries of the array that this tick's configuration request returned
FetchedItems == Val(fetchLog.rsp).doc.items

\* fetchAndApplyCloudConfig has returned for an array with more entries than
\* there are slots
OverCapacityFetched ==
    /\ pc = "cmd"
    /\ fetchLog.calls = 1
    /\ FetchedArray
    /\ Len(FetchedItems) > MAX_SENSORS

\* an entry that carries both members and does not name "unconfigured"
Applicable(e) ==
    /\ ~IsNull(e.sensor_type)
    /\ ~IsNull(e.port_id)
    /\ Val(e.sensor_type) # S_unconfigured

\* the slot that an applicable entry is translated to
SlotOf(e) ==
    [type |-> mapSensorType(Val(e.sensor_type)),
     pin  |-> parsePortId(Val(e.port_id)),
     name |-> strncpy(Val(e.sensor_type), NAME_MAX)]

\* C14 as stated: for a list longer than the slot capacity only the first
\* MAX_SENSORS entries of the list are applied (every filled slot comes from
\* one of them), the call succeeds, and the stored record's checksum is
\* valid.
C14_FirstEntriesOnly ==
    OverCapacityFetched =>
        /\ fetchLog.ok
        /\ \A i \in 1..MAX_SENSORS :
              \/ deviceConfig.sensors[i] = ZeroSensor
              \/ \E j \in 1..MAX_SENSORS :
                    /\ Applicable(FetchedItems[j])
                    /\ deviceConfig.sensors[i] = SlotOf(FetchedItems[j])
        /\ ChecksumMatches(eeprom)

\* C14 as amended: for a list longer than the slot capacity the slots hold,
\* in order, the first MAX_SENSORS applicable entries of the list (entries
\* without sensor_type or port_id and "unconfigured" entries do not count),
\* wherever in the list they stand; the remaining slots are zero, the later
\* entries are dropped, the call returns true, and the record is stored with
\* a checksum that verifies.
C14_FirstApplicableEntries ==
    OverCapacityFetched =>
        LET app == SelectSeq(FetchedItems, Applicable)
        IN  /\ fetchLog.ok
            /\ \A i \in 1..MAX_SENSORS :
                  deviceConfig.sensors[i] =
                      IF i <= Len(app) THEN SlotOf(app[i]) ELSE ZeroSensor
            /\ eeprom = deviceConfig
            /\ ChecksumMatches(eeprom)
            /\ validateConfig(deviceConfig)

C14_Witness ==
    /\ OverCapacityFetched
    /\ Len(FetchedItems) = 6
    /\ Len(SelectSeq(FetchedItems, Applicable)) = 6
    /\ deviceConfig.sensors[4] = SlotOf(FetchedItems[4])
    /\ deviceConfig.sensors[4].name = S_temp
    /\ fetchLog.ok

\* C15: after fetchAndApplyCloudConfig has returned true, no slot has type
\* 0 (none) with a pin other than 0, and no slot has pin 0 with a type other
\* than 0.
C15_SlotInvariant ==
    (pc = "cmd" /\ fetchLog.ok) =>
        \A i \in 1..MAX_SENSORS :
            (deviceConfig.sensors[i].type = 0) <=> (deviceConfig.sensors[i].pin = 0)

\* ------------------------------------------------------ firmware update

\* executeCommand has returned from a firmware update: the update call came
\* back (transfer failed, no update available, or the unexpected OK) instead
\* of restarting into the new image
FirmwareFailed ==
    /\ pc = "ret"
    /\ hb.command.valid
    /\ streq(hb.command.type, CMD_FIRMWARE_UPDATE)

\* C16 as stated: after a failed firmware update exactly one acknowledgment
\* has been sent, with success=false and a reason, no restart is triggered
\* and the configuration in RAM and in the EEPROM is unchanged.
C16_FailedOtaAckSent ==
    FirmwareFailed =>
        /\ Len(acks) = 1
        /\ acks[1].sent
        /\ ~acks[1].success
        /\ acks[1].msg = Some(MSG_OTA)
        /\ restartCause = "none"
        /\ eeprom = pre.ee
        /\ deviceConfig = pre.mem

\* C16 as amended: after a failed firmware update executeCommand has called
\* acknowledgeCommand exactly once, with the command's identifier,
\* success=false and the reason "OTA update failed", and has returned false
\* without a restart and without touching the configuration; the request of
\* that call goes out if and only if WiFi is connected at that moment.
C16_FailedOtaAckCalled ==
    FirmwareFailed =>
        /\ Len(acks) = 1
        /\ acks[1].id = hb.command.id
        /\ ~acks[1].success
        /\ acks[1].msg = Some(MSG_OTA)
        /\ acks[1].sent <=> wifi.status = "connected"
        /\ outcome = "false"
        /\ restartCause = "none"
        /\ eeprom = pre.ee
        /\ deviceConfig = pre.mem

C16_Witness ==
    /\ FirmwareFailed
    /\ hb.command.id = <<"c","5">>
    /\ Len(acks) = 1
    /\ acks[1].sent
    /\ acks[1].delivered
    /\ ~acks[1].success

\* ------------------------------------------- config_version in the store

\* C17 as stated: no operation of the device (load, provisioning, backup,
\* restore, storing new credentials, fetch) replaces the stored
\* config_version by a smaller value.
C17_NeverDecremented ==
    [][(pc' \in {"loaded", "reloaded", "cleared", "provisioned", "done"}) =>
          eeprom'.config_version >= eeprom.config_version]_vars

\* C17 as amended: saveConfig() stores the config_version that RAM holds;
\* loadConfig() keeps a stored value within 0..10000 and replaces any other,
\* a larger one included, by 0; saveConfigCallback() and clearConfig() set
\* it to 0 whatever it was; backup, restore, the storing of new credentials
\* and the fetch of the sensor list leave it as it is.
C17_VersionOnlyReset ==
    [][/\ (pc = "ram" /\ pc' = "stored") =>
             eeprom'.config_version = deviceConfig.config_version
       /\ (pc # pc' /\ pc' \in {"loaded", "reloaded"}) =>
             /\ eeprom'.config_version =
                   IF eeprom.config_version \in 0..CONFIG_VERSION_MAX
                   THEN eeprom.config_version ELSE 0
             /\ deviceConfig'.config_version = eeprom'.config_version
       /\ (pc = "loaded" /\ pc' = "done") =>
             /\ eeprom'.config_version = eeprom.config_version
             /\ deviceConfig'.config_version = deviceConfig.config_version
       /\ (pc = "loaded" /\ pc' \in {"provisioned", "cleared"}) =>
             /\ eeprom'.config_version = 0
             /\ deviceConfig'.config_version = 0]_vars

C17_Witness ==
    /\ pc = "provisioned"
    /\ validateConfig(pre.mem)
    /\ pre.ee.config_version = CONFIG_VERSION_MAX
    /\ eeprom.config_version = 0
    /\ eeprom.composite_device_id = DEVICE_ID

\* ------------------------------------------- the steps of a rotation

IsPrefix(s, t) == Len(s) <= Len(t) /\ SubSeq(t, 1, Len(s)) = s

\* the three complete runs of updateWiFiCredentials
RotationRuns ==
    { <<"BACKUP", "ATTEMPT_NEW", "COMMITTED">>,
      <<"BACKUP", "ATTEMPT_NEW", "RESTORE_BACKUP", "RECONNECTED">>,
      <<"BACKUP", "ATTEMPT_NEW", "RESTORE_BACKUP", "FATAL">> }

\* C18: the steps of a rotation are a prefix of BACKUP, ATTEMPT_NEW, then
\* COMMITTED or RESTORE_BACKUP, then (after RESTORE_BACKUP only) RECONNECTED
\* or FATAL; the restore is reached only after the one wait for the new
\* network ended with the station not connected; nothing follows COMMITTED;
\* and the acknowledgment that reports the return value carries success
\* exactly when the rotation reached COMMITTED.
C18_RotationTransitions ==
    rot.trail # <<>> =>
        /\ \E run \in RotationRuns : IsPrefix(rot.trail, run)
        /\ RotationAt("RESTORE_BACKUP") =>
              /\ rot.waits = 1
              /\ wifi.status = "disconnected"
              /\ wifi.ssid = hb.command.ssid
        /\ RotationAt("COMMITTED") =>
              /\ rot.waits = 1
              /\ wifi.status = "connected"
              /\ pc \in {"delay", "restart"}
        /\ \A i \in 1..Len(acks) :
              acks[i].success <=> RotationAt("COMMITTED")
        /\ (pc = "ret" \/ outcome = "false") => RotationAt("RECONNECTED")
        /\ RotationAt("COMMITTED") => Len(acks) = 1
        /\ RotationAt("RECONNECTED") => Len(acks) = 1
        /\ RotationAt("FATAL") => acks = <<>>

C18_Witness ==
    /\ rot.trail = <<"BACKUP", "ATTEMPT_NEW", "RESTORE_BACKUP", "RECONNECTED">>
    /\ pc = "ret"
    /\ Len(acks) = 1
    /\ ~acks[1].success
    /\ wifi.status = "connected"

\* ------------------------------------------- termination of a rotation

\* the wait for the new network leaves its loop at the timeout
RotJoinTimeout == RotJoinNew /\ wifi'.status = "disconnected"

\* the wait for the original network leaves its loop at the timeout
RotRejoinTimeout == RotRejoin /\ wifi'.status = "disconnected"

\* the heartbeat responses that carry a WiFi update command
WifiUpdateResponses ==
    { r \in { sendHeartbeat("connected", a).response : a \in HeartbeatAnswers } :
        /\ r.command.valid
        /\ streq(r.command.type, CMD_WIFI_UPDATE)
        /\ r.config_version = 1 }

\* the record of a device that has committed a rotation before: it holds
\* the credentials of that command and a valid backup of the earlier ones
RotatedConfig ==
    storeNewCredentials(
        backupCurrentWiFi([mem |-> ProvisionedConfig, ee |-> ProvisionedConfig]),
        SSID_B, PASS_B).mem

\* a tick that has reached executeCommand with a WiFi update command
RotationInit ==
    /\ deviceConfig \in {ProvisionedConfig, RotatedConfig}
    /\ eeprom = deviceConfig
    /\ wifi \in {[status |-> w, ssid |-> deviceConfig.wifi_ssid] :
                    w \in {"connected", "disconnected"}}
    /\ pc = "cmd"
    /\ hb \in WifiUpdateResponses
    /\ tick = 1
    /\ boots = 0
    /\ hbNet = NULL
    /\ verAtHb = 1
    /\ fetchLog = NoFetch
    /\ pre = [mem |-> deviceConfig, ee |-> eeprom]
    /\ acks = <<>>
    /\ outcome = "none"
    /\ rot = NoRotation
    /\ executed = <<>>
    /\ restartCause = "none"

RotationNext ==
    \/ ExecWifiUpdate
    \/ RotStoreNew
    \/ RotPoll
    \/ RotJoinNew
    \/ RotRestore
    \/ RotRejoin
    \/ PowerLoss

SpecRotation == RotationInit /\ [][RotationNext]_vars

\* the step of the procedure that the device takes by itself: the next
\* statement, a turn of a wait loop, or the exit of a wait at its timeout
RotationStep ==
    \/ ExecWifiUpdate
    \/ RotStoreNew
    \/ RotPoll
    \/ RotJoinTimeout
    \/ RotRestore
    \/ RotRejoinTimeout

\* The thread that runs updateWiFiCredentials keeps running: its next step
\* is eventually taken.  The network is free never to let the station join,
\* and power may be lost at any step.
FairRotation == SpecRotation /\ WF_vars(RotationStep)

RotationEnded ==
    /\ pc \notin RotationPcs
    /\ \/ RotationAt("COMMITTED")
       \/ RotationAt("RECONNECTED")
       \/ RotationAt("FATAL")
       \/ outcome = "power"

\* C19: a rotation that has started reaches COMMITTED, RECONNECTED or FATAL
\* (or the device loses power) whatever the network does; it makes at most
\* two join waits, one when it ends at COMMITTED and two when it ends at
\* RECONNECTED or FATAL, and no wait outlasts its timeout.
C19_RotationTerminates ==
    /\ [](/\ rot.waits <= 2
          /\ rot.elapsed <= WaitPolls
          /\ RotationAt("COMMITTED") => rot.waits = 1
          /\ (RotationAt("RECONNECTED") \/ RotationAt("FATAL")) =>
                rot.waits = 2)
    /\ (pc \in RotationPcs \cup {"cmd"}) ~> RotationEnded

C19_Witness ==
    /\ pc = "rot_restored"
    /\ rot.waits = 1
    /\ rot.elapsed = WaitPolls
    /\ wifi.status = "disconnected"

\* ------------------------------------------- the heartbeat by itself

\* what http.POST may return: a negative HTTPClient error, or the status
\* of the answer
StatusCodes == {-1, 200, 201, 204, 404, 500}

\* the answers of HeartbeatAnswers, each under every status
HeartbeatReplies ==
    {[code |-> c, parsed |-> a.parsed, doc |-> a.doc] :
        c \in StatusCodes, a \in HeartbeatAnswers}

HeartbeatInit ==
    /\ deviceConfig = ProvisionedConfig
    /\ eeprom = ProvisionedConfig
    /\ wifi \in {[status |-> w, ssid |-> SSID_A] :
                    w \in {"connected", "disconnected"}}
    /\ pc = "idle"
    /\ hb = NoResponse
    /\ tick = 0
    /\ boots = 0
    /\ hbNet = NULL
    /\ verAtHb = 1
    /\ fetchLog = NoFetch
    /\ pre = [mem |-> ProvisionedConfig, ee |-> ProvisionedConfig]
    /\ acks = <<>>
    /\ outcome = "none"
    /\ rot = NoRotation
    /\ executed = <<>>
    /\ restartCause = "none"

\* one call of sendHeartbeat()
HbCall ==
    /\ pc = "idle"
    /\ \E rsp \in HeartbeatReplies :
          LET r == sendHeartbeat(wifi.status, rsp)
          IN  /\ hb' = r.response
              /\ hbNet' = IF r.posts = 0 THEN NULL ELSE Some(rsp)
    /\ pc' = "sync"
    /\ tick' = tick + 1
    /\ UNCHANGED <<deviceConfig, eeprom, wifi, boots, verAtHb, fetchLog, pre,
                   acks, outcome, rot, executed, restartCause>>

HeartbeatNext == HbCall

SpecHeartbeat == HeartbeatInit /\ [][HeartbeatNext]_vars

\* C20: when the heartbeat request is answered with a status other than
\* 200, whatever the body of the answer, sendHeartbeat returns success =
\* false, config_version = -1 and a command that is not valid.
C20_Non200IsFailure ==
    (pc = "sync" /\ ~IsNull(hbNet) /\ Val(hbNet).code # 200) =>
        /\ hb.success = FALSE
        /\ hb.config_version = -1
        /\ hb.command.valid = FALSE
        /\ hb.command = ZeroCommand

C20_Witness ==
    /\ pc = "sync"
    /\ ~IsNull(hbNet)
    /\ Val(hbNet).code = 201
    /\ Val(hbNet).parsed
    /\ Val(hbNet).doc.success = Some(TRUE)
    /\ Val(hbNet).doc.config_version = Some(2)
    /\ ~IsNull(Val(hbNet).doc.command)
    /\ hb.config_version = -1
    /\ ~hb.command.valid

\* C21: a call of sendHeartbeat issues no request when the station is not
\* connected, and then returns the failure result; it issues exactly one
\* request when the station is connected, whatever the answer; it never
\* issues more than one.
C21_OneRequestPerCall ==
    [][(pc = "idle" /\ pc' = "sync") =>
          /\ wifi.status # "connected" =>
                /\ hbNet' = NULL
                /\ hb' = NoResponse
                /\ \A rsp \in HeartbeatReplies :
                      sendHeartbeat(wifi.status, rsp).posts = 0
          /\ wifi.status = "connected" =>
                /\ ~IsNull(hbNet')
                /\ sendHeartbeat(wifi.status, Val(hbNet')).posts = 1
                /\ sendHeartbeat(wifi.status, Val(hbNet')).response = hb']_vars

C21_Witness ==
    /\ pc = "sync"
    /\ wifi.status = "disconnected"
    /\ hbNet = NULL
    /\ hb = NoResponse
    /\ tick = 1

\* ------------------------------------------- parseCommand by itself

\* a payload member that is present and is not a string (null, a number):
\* containsKey() is true and the conversion to const char* gives nullptr
NotAString == <<"(null)">>

\* parseCommand hands strncpy a null source: the member the type selects is
\* present and is not a string (commands.cpp 39-56)
strncpyNullSource(cmdJson) ==
    /\ ~IsNull(cmdJson.id)
    /\ ~IsNull(cmdJson.type)
    /\ \/ /\ streq(Val(cmdJson.type), CMD_WIFI_UPDATE)
          /\ \/ cmdJson.payload.ssid = Some(NotAString)
             \/ cmdJson.payload.password = Some(NotAString)
       \/ /\ streq(Val(cmdJson.type), CMD_FIRMWARE_UPDATE)
          /\ \/ cmdJson.payload.url = Some(NotAString)
             \/ cmdJson.payload.version = Some(NotAString)

\* a type longer than the 19 characters the buffer holds
TYPE_LONG == CMD_FIRMWARE_UPDATE \o <<"_","f","o","r","c","e">>

\* an identifier longer than the 36 characters the buffer holds
ID_LONG == [i \in 1..(CMD_ID_MAX + 2) |-> "9"]

ParseIds == {NULL, Some(<<>>), Some(<<"c","1">>), Some(ID_LONG)}

ParseTypes ==
    {NULL, Some(<<>>), Some(CMD_RESET), Some(CMD_WIFI_UPDATE),
     Some(CMD_FIRMWARE_UPDATE), Some(<<"p","i","n","g">>), Some(TYPE_LONG)}

ParsePayloads ==
    { NoPayload,
      [NoPayload EXCEPT !.ssid = Some(SSID_B), !.password = Some(PASS_B)],
      [NoPayload EXCEPT !.ssid = Some(<<>>), !.password = Some(PASS_B)],
      [NoPayload EXCEPT !.ssid = Some(NotAString)],
      [NoPayload EXCEPT !.password = Some(PASS_B)],
      [NoPayload EXCEPT !.url = Some(<<"h",":","/","f">>)],
      [NoPayload EXCEPT !.url = Some(<<>>), !.version = Some(<<"v","9">>)],
      [NoPayload EXCEPT !.url = Some(NotAString)],
      [ssid |-> Some(SSID_B), password |-> Some(PASS_B),
       url |-> Some(<<"h",":","/","f">>), version |-> Some(<<"v","9">>)] }

\* the command objects handed to parseCommand
ParseCommands ==
    {[id |-> i, type |-> t, payload |-> p] :
        i \in ParseIds, t \in ParseTypes, p \in ParsePayloads}

ParseInit == HeartbeatInit /\ wifi.status = "connected"

\* sendHeartbeat's call of parseCommand on the command object of a 200
\* answer; a null source to strncpy is a load from address 0, which resets
\* the device
PcParse ==
    /\ pc = "idle"
    /\ \E c \in ParseCommands :
          /\ hbNet' = Some([code |-> 200, parsed |-> TRUE,
                            doc |-> [NoDoc EXCEPT !.command = Some(c)]])
          /\ IF strncpyNullSource(c)
             THEN /\ pc' = "restart"
                  /\ restartCause' = "exception"
                  /\ UNCHANGED hb
             ELSE /\ pc' = "sync"
                  /\ hb' = [NoResponse EXCEPT !.command = parseCommand(c)]
                  /\ UNCHANGED restartCause
    /\ tick' = tick + 1
    /\ UNCHANGED <<deviceConfig, eeprom, wifi, boots, verAtHb, fetchLog, pre,
                   acks, outcome, rot, executed>>

ParseNext == PcParse

SpecParse == ParseInit /\ [][ParseNext]_vars

\* the command object of the answer in hand
ParsedObject == Val(Val(hbNet).doc.command)

\* a payload member that is a string of at least one character
NonEmptyMember(m) == ~IsNull(m) /\ m # Some(NotAString) /\ Val(m) # <<>>

\* validity as the claim states it
StatedValid(c) ==
    /\ ~IsNull(c.id)
    /\ ~IsNull(c.type)
    /\ streq(Val(c.type), CMD_WIFI_UPDATE) => NonEmptyMember(c.payload.ssid)
    /\ streq(Val(c.type), CMD_FIRMWARE_UPDATE) => NonEmptyMember(c.payload.url)

OtherType(c) ==
    /\ ~IsNull(c.id)
    /\ ~IsNull(c.type)
    /\ ~streq(Val(c.type), CMD_RESET)
    /\ ~streq(Val(c.type), CMD_WIFI_UPDATE)
    /\ ~streq(Val(c.type), CMD_FIRMWARE_UPDATE)

\* what parseCommand returned agrees with the claim
ParsedAsStated ==
    /\ hb.command.valid <=> StatedValid(ParsedObject)
    /\ OtherType(ParsedObject) =>
          /\ hb.command.valid
          /\ hb.command.id = strncpy(Val(ParsedObject.id), CMD_ID_MAX)
          /\ hb.command.type = strncpy(Val(ParsedObject.type), CMD_TYPE_MAX)
          /\ hb.command.ssid = <<>>
          /\ hb.command.password = <<>>
          /\ hb.command.url = <<>>
          /\ hb.command.version = <<>>

\* C22 as stated: parseCommand returns, and the command it returns is valid
\* exactly when id and type are present, a wifi_update carries a non-empty
\* SSID and a firmware_update a non-empty URL; a command of any other type
\* is valid, with id and type copied and the payload fields empty.
C22_ValidIff ==
    ~IsNull(hbNet) => (pc = "sync" /\ ParsedAsStated)

\* ------------------------------------------- reset and unknown commands

\* C23: for a reset command the restart is reached only through the call
\* that acknowledges success: when the device is about to restart,
\* acknowledgeCommand has been called exactly once, with the command's id,
\* success = true and no reason (the request goes out when the station is
\* connected), and the stored and the in-memory record are the ones held
\* before the command.
C23_ResetAckThenRestart ==
    /\ []((restartCause = "reset" /\ pc \in {"delay", "restart"}) =>
             /\ streq(hb.command.type, CMD_RESET)
             /\ Len(acks) = 1
             /\ acks[1].id = hb.command.id
             /\ acks[1].success
             /\ acks[1].msg = NULL
             /\ acks[1].sent <=> wifi.status = "connected"
             /\ eeprom = pre.ee
             /\ deviceConfig = pre.mem)
    /\ [][(pc' = "restart" /\ pc # "restart" /\ restartCause' = "reset") =>
             (pc = "delay" /\ Len(acks) = 1 /\ UNCHANGED acks)]_vars

C23_Witness ==
    /\ pc = "restart"
    /\ restartCause = "reset"
    /\ Len(acks) = 1
    /\ acks[1].success
    /\ acks[1].delivered
    /\ eeprom = ProvisionedConfig

\* executeCommand is about to be called with a valid command whose type is
\* none of the three it knows
UnknownPending ==
    /\ pc = "cmd"
    /\ hb.command.valid
    /\ ~streq(hb.command.type, CMD_RESET)
    /\ ~streq(hb.command.type, CMD_WIFI_UPDATE)
    /\ ~streq(hb.command.type, CMD_FIRMWARE_UPDATE)

\* the call leaves the record, the station and the rotation as they were
\* and triggers no restart
UnknownFrame ==
    /\ pc' = "ret"
    /\ outcome' = "false"
    /\ UNCHANGED <<deviceConfig, eeprom, wifi, rot, restartCause>>

\* C24 as stated: for such a command exactly one acknowledgment is sent,
\* with success = false and the reason "Unknown command type", and nothing
\* else changes.
C24_UnknownAckSent ==
    [][(UnknownPending /\ pc' # "cmd") =>
          /\ Len(acks') = 1
          /\ acks'[1].sent
          /\ ~acks'[1].success
          /\ acks'[1].msg = Some(MSG_UNKNOWN)
          /\ UnknownFrame]_vars

\* C24 as amended: acknowledgeCommand is called exactly once, with the
\* command's id, success = false and the reason "Unknown command type"; the
\* request goes out exactly when the station is connected at that moment;
\* nothing else changes.
C24_UnknownAckCalled ==
    [][(UnknownPending /\ pc' # "cmd") =>
          /\ Len(acks') = 1
          /\ acks'[1].id = hb.command.id
          /\ ~acks'[1].success
          /\ acks'[1].msg = Some(MSG_UNKNOWN)
          /\ acks'[1].sent <=> wifi.status = "connected"
          /\ UnknownFrame]_vars

C24_Witness ==
    /\ pc = "ret"
    /\ hb.command.valid
    /\ hb.command.type = <<"p","i","n","g">>
    /\ Len(acks) = 1
    /\ ~acks[1].success
    /\ acks[1].sent
    /\ acks[1].msg = Some(MSG_UNKNOWN)

\* ------------------------------------------- a firmware update that succeeds

Acknowledged == acks # <<>> /\ hb.command.valid

\* C26: a call of acknowledgeCommand issues one request when the station is
\* connected and none otherwise; a command is acknowledged by one call at
\* most; and what executeCommand does after the call is fixed by the type
\* of the command and the result being reported, whether or not the
\* request was sent or answered with 200: a reset and a committed rotation
\* restart, everything else returns false without a restart, and outside a
\* rotation the record is the one held before the command.
C26_AckBestEffort ==
    /\ \A i \in 1..Len(acks) :
          /\ acks[i].posts = (IF acks[i].sent THEN 1 ELSE 0)
          /\ acks[i].delivered => acks[i].sent
    /\ Len(acks) <= 1
    /\ Acknowledged =>
          /\ streq(hb.command.type, CMD_RESET) =>
                /\ pc \in {"delay", "restart"}
                /\ restartCause = "reset"
          /\ streq(hb.command.type, CMD_WIFI_UPDATE) =>
                IF acks[1].success
                THEN pc \in {"delay", "restart"} /\ restartCause = "wifi_update"
                ELSE pc = "ret" /\ outcome = "false" /\ restartCause = "none"
          /\ (~streq(hb.command.type, CMD_RESET)
                /\ ~streq(hb.command.type, CMD_WIFI_UPDATE)) =>
                pc = "ret" /\ outcome = "false" /\ restartCause = "none"
          /\ ~streq(hb.command.type, CMD_WIFI_UPDATE) =>
                eeprom = pre.ee /\ deviceConfig = pre.mem

C26_Witness ==
    /\ pc = "restart"
    /\ restartCause = "reset"
    /\ Len(acks) = 1
    /\ acks[1].sent
    /\ acks[1].posts = 1
    /\ ~acks[1].delivered

\* ------------------------------------------- the checksum of what is written

\* C27 as stated: every operation that changes the stored record stores a
\* record whose checksum field is the CRC of its other fields.
C27_EveryWriteCarriesChecksum ==
    [][(eeprom' # eeprom /\ pc' # "corrupt") => ChecksumMatches(eeprom')]_vars

\* C27 as amended: the record stored by saveConfig(), by provisioning, by a
\* backup and by the storing of new credentials, and the record stored by a
\* load, a restore or a fetch that writes, carries the CRC of its other
\* fields; clearConfig() stores the all-zero record, whose checksum field,
\* zero, is not the CRC of the other bytes.
C27_WritesCarryChecksumExceptClear ==
    [][/\ (StSave \/ StProvision \/ StBackup \/ StStoreNew) =>
             ChecksumMatches(eeprom')
       /\ ((StLoad \/ StRestore \/ StFetch) /\ eeprom' # eeprom) =>
             ChecksumMatches(eeprom')
       /\ StClear =>
             /\ eeprom' = BlankRecord
             /\ eeprom'.crc32 = {}
             /\ ~ChecksumMatches(eeprom')]_vars

C27_Witness ==
    /\ pc = "done"
    /\ eeprom # pre.ee
    /\ eeprom.wifi_backup.valid
    /\ ~pre.ee.wifi_backup.valid
    /\ ChecksumMatches(eeprom)

\* C28: after clearConfig() the record in memory and the stored record are
\* both the all-zero record (identifier, credentials, key, slots,
\* config_version, backup and checksum) and validateConfig() is false; the
\* same is true after the loadConfig() that follows, which writes nothing.
C28_ClearedIsBlankAndInvalid ==
    (pc \in {"cleared", "reloaded"}) =>
        /\ deviceConfig = BlankRecord
        /\ eeprom = BlankRecord
        /\ deviceConfig.crc32 = {}
        /\ deviceConfig.config_version = 0
        /\ ~deviceConfig.wifi_backup.valid
        /\ ~validateConfig(deviceConfig)
        /\ ~validateConfig(eeprom)
        /\ pc = "reloaded" => pre.ee = BlankRecord

C28_Witness ==
    /\ pc = "cleared"
    /\ validateConfig(pre.mem)
    /\ pre.ee.composite_device_id = DEVICE_ID
    /\ pre.ee.wifi_backup.valid
    /\ eeprom = BlankRecord
    /\ deviceConfig = BlankRecord

\* ------------------------------------------- config_version after a load

\* C29: when loadConfig() returns, config_version is within 0..10000 in
\* memory and in storage.  A stored value within that range is kept, the
\* record in memory is the stored one and storage is as it was; a stored
\* value outside it is replaced by 0 and the record, otherwise unchanged
\* and under a fresh checksum, is stored.
C29_LoadedVersionInRange ==
    [][(pc # pc' /\ pc' \in {"loaded", "reloaded"}) =>
          /\ deviceConfig'.config_version \in 0..CONFIG_VERSION_MAX
          /\ eeprom'.config_version \in 0..CONFIG_VERSION_MAX
          /\ IF eeprom.config_version \in 0..CONFIG_VERSION_MAX
             THEN /\ eeprom' = eeprom
                  /\ deviceConfig' = eeprom
             ELSE /\ deviceConfig'.config_version = 0
                  /\ eeprom' = deviceConfig'
                  /\ [eeprom' EXCEPT !.crc32 = {}] =
                        [eeprom EXCEPT !.config_version = 0, !.crc32 = {}]
                  /\ ChecksumMatches(eeprom')]_vars

C29_Witness ==
    /\ pc = "loaded"
    /\ pre.ee.config_version = CONFIG_VERSION_MAX + 1
    /\ pre.ee.composite_device_id = DEVICE_ID
    /\ eeprom.config_version = 0
    /\ deviceConfig.config_version = 0
    /\ validateConfig(deviceConfig)

\* ------------------------------------------- resync after a repaired load

\* stored records whose config_version is outside 0..10000: a bit of the
\* field inverted under the old checksum, and the value 10001 saved under
\* its own checksum
ResyncRecords ==
    {r \in CorruptedRecords(ProvisionedConfig) :
        r.config_version \notin 0..CONFIG_VERSION_MAX}
    \cup {saveConfig([mem |-> [ProvisionedConfig EXCEPT
                                  !.config_version = CONFIG_VERSION_MAX + 1],
                      ee |-> BlankRecord]).ee}

\* the answers to a heartbeat of a cloud that has no command pending: a
\* failure, or success with the config_version 0 or 1 of the device's row
ResyncAnswers ==
    { [code |-> 500, parsed |-> FALSE, doc |-> NoDoc] }
    \cup { [code |-> 200, parsed |-> TRUE,
            doc |-> [success |-> Some(TRUE), config_version |-> Some(v),
                     command |-> NULL]] : v \in {0, 1} }

\* power-up over a stored record with an implausible config_version
ResyncInit ==
    /\ eeprom \in ResyncRecords
    /\ deviceConfig = BlankRecord
    /\ wifi = [status |-> "disconnected", ssid |-> <<>>]
    /\ pc = "restart"
    /\ hb = NoResponse
    /\ tick = 0
    /\ boots = 0
    /\ hbNet = NULL
    /\ verAtHb = 0
    /\ fetchLog = NoFetch
    /\ pre = [mem |-> BlankRecord, ee |-> eeprom]
    /\ acks = <<>>
    /\ outcome = "none"
    /\ rot = NoRotation
    /\ executed = <<>>
    /\ restartCause = "none"

\* loop(), step 1, of a device that runs without end: the ticks are not
\* counted
ResyncHeartbeat ==
    /\ pc = "idle"
    /\ \E rsp \in ResyncAnswers :
          LET r == sendHeartbeat(wifi.status, rsp)
          IN  /\ hb' = r.response
              /\ hbNet' = IF r.posts = 0 THEN NULL ELSE Some(rsp)
    /\ pc' = "sync"
    /\ verAtHb' = deviceConfig.config_version
    /\ fetchLog' = NoFetch
    /\ pre' = store
    /\ acks' = <<>>
    /\ outcome' = "none"
    /\ rot' = NoRotation
    /\ UNCHANGED <<deviceConfig, eeprom, wifi, tick, boots, executed,
                   restartCause>>

ResyncNext ==
    \/ Boot
    \/ ResyncHeartbeat
    \/ SyncConfig
    \/ ExecInvalid
    \/ EndTick
    \/ LinkDown
    \/ LinkUp

\* the device's steps are taken when they stay possible; the link comes
\* back, heartbeats that report a version succeed again and again, and so
\* do the fetches that are attempted again and again
FairResync ==
    /\ ResyncInit
    /\ [][ResyncNext]_vars
    /\ WF_vars(Boot)
    /\ WF_vars(ResyncHeartbeat)
    /\ WF_vars(SyncConfig)
    /\ WF_vars(ExecInvalid)
    /\ WF_vars(EndTick)
    /\ SF_vars(LinkUp)
    /\ SF_vars(ResyncHeartbeat /\ hb'.success /\ hb'.config_version # -1)
    /\ SF_vars(SyncConfig /\ fetchLog'.ok)

\* a full fetch has succeeded and the slots are the list's, in memory and
\* in storage
Resynced ==
    /\ fetchLog.ok
    /\ deviceConfig.sensors = eeprom.sensors
    /\ deviceConfig.config_version = hb.config_version

\* C30: after a boot whose load found an implausible config_version, when
\* the link comes back and heartbeats succeed again and again, a full fetch
\* of the sensor configuration eventually succeeds and the slots are the
\* cloud's list, whatever config_version the cloud reports (0 included).
C30_CorruptionForcesResync == (pc = "idle" /\ boots = 1) ~> Resynced

\* the same, when heartbeats report a config_version other than 0 again
\* and again: this much the program does
C30_ResyncWhenCloudNonZero ==
    ([]<>(pc = "sync" /\ hb.config_version = 1)) => <>Resynced

\* the repaired device in step with a cloud at config_version 0: no fetch
C30_Stale ==
    /\ pc = "cmd"
    /\ boots = 1
    /\ hb.success
    /\ hb.config_version = 0
    /\ deviceConfig.config_version = 0
    /\ fetchLog.calls = 0
    /\ deviceConfig.sensors = ProvisionedConfig.sensors

\* ------------------------------------------------------ validateConfig

\* C31: validateConfig() returns true exactly when the stored checksum is
\* the CRC of the record's other fields, the device identifier is not empty
\* and the SSID is not empty; the record in memory and the record in
\* storage are the same after the call as before it.
C31_ValidateIffAndPure ==
    pc = "validated" =>
        /\ outcome \in {"valid", "invalid"}
        /\ outcome = "valid" <=>
              /\ ChecksumMatches(deviceConfig)
              /\ Len(deviceConfig.composite_device_id) > 0
              /\ Len(deviceConfig.wifi_ssid) > 0
        /\ deviceConfig = pre.mem
        /\ eeprom = pre.ee

\* a record whose checksum matches and whose identifier is set is refused
\* for its empty SSID
C31_Witness ==
    /\ pc = "validated"
    /\ outcome = "invalid"
    /\ ChecksumMatches(deviceConfig)
    /\ deviceConfig.composite_device_id = DEVICE_ID
    /\ deviceConfig.wifi_ssid = <<>>

\* ------------------------------------------ the slots after an application

\* the first n characters of a name
FirstChars(name, n) == [k \in 1..(IF Len(name) < n THEN Len(name) ELSE n) |-> name[k]]

\* C32: after fetchAndApplyCloudConfig has returned true, the slots are, in
\* order, the translations (type by mapSensorType, pin by parsePortId, name
\* cut to 31 characters) of the first MAX_SENSORS entries of the list that
\* carry sensor_type and port_id and are not named "unconfigured"; every
\* other slot is all-zero, whatever it held before; no name is longer than
\* 31 characters.
C32_SlotsAreTheList ==
    (pc = "cmd" /\ fetchLog.ok) =>
        LET app == SelectSeq(FetchedItems, Applicable)
        IN  \A i \in 1..MAX_SENSORS :
               /\ deviceConfig.sensors[i] =
                     IF i <= Len(app)
                     THEN [type |-> mapSensorType(Val(app[i].sensor_type)),
                           pin  |-> parsePortId(Val(app[i].port_id)),
                           name |-> FirstChars(Val(app[i].sensor_type), 31)]
                     ELSE [pin |-> 0, type |-> 0, name |-> <<>>]
               /\ Len(deviceConfig.sensors[i].name) <= 31
               /\ eeprom.sensors[i] = deviceConfig.sensors[i]

\* the list [unconfigured, a name of 32 characters on D7] has been applied
\* to a device whose first slot was configured: the first entry took no
\* slot, the name is cut, the second slot is zero
C32_Witness ==
    /\ pc = "cmd"
    /\ fetchLog.ok
    /\ pre.mem.sensors[1] # ZeroSensor
    /\ Len(FetchedItems) = 2
    /\ FetchedItems[1].sensor_type = Some(S_unconfigured)
    /\ FetchedItems[2].sensor_type = Some(S_temp_long)
    /\ Len(deviceConfig.sensors[1].name) = 31
    /\ deviceConfig.sensors[1].pin = 13
    /\ deviceConfig.sensors[2] = ZeroSensor

\* ------------------------------- mapSensorType and parsePortId by themselves

\* the decimal numeral of a natural number
RECURSIVE Decimal(_)
Decimal(n) ==
    IF n < 10 THEN <<Digits[n + 1]>>
    ELSE Decimal(n \div 10) \o <<Digits[(n % 10) + 1]>>

\* the sensor type names the translation is exercised with
TypeNames ==
    { <<>>, S_temp, S_humidity, S_soil_moisture, S_water_level, S_unconfigured,
      S_ph, S_temp_long,
      S_temp \o <<"e","r","a","t","u","r","e">>,
      <<"a","i","r","_">> \o S_humidity,
      S_soil_moisture \o <<"_","1">>,
      S_water_level \o <<"_","2">>,
      <<"x","_">> \o S_water_level,
      S_water_level \o <<"_">> \o S_temp,
      S_soil_moisture \o <<"_">> \o S_humidity,
      <<"T","e","m","p">>, <<"t","e","m">>, <<"s","o","i","l">> }

\* the numbers that follow "GPIO" and "D" in the tokens
PortNumbers == {0, 1, 2, 3, 4, 5, 6, 7, 8, 9, 10, 11, 16, 255, 256, 300}

\* the port tokens the translation is exercised with
PortTokens ==
    {S_GPIO \o Decimal(n) : n \in PortNumbers}
    \cup {<<"D">> \o Decimal(n) : n \in PortNumbers}
    \cup {Decimal(n) : n \in PortNumbers}
    \cup { <<>>, <<"A","0">>, <<"A","1">>, <<"D">>, <<"D","x">>, S_GPIO,
           <<"g","p","i","o","4">>, <<"x","4">>, <<"-","1">> }

\* one entry of a sensor list is about to be translated
TranslateInit ==
    /\ pre \in {Entry(Some(t), Some(<<"D","1">>)) : t \in TypeNames}
               \cup {Entry(Some(S_temp), Some(p)) : p \in PortTokens}
    /\ deviceConfig = ProvisionedConfig
    /\ eeprom = ProvisionedConfig
    /\ wifi = [status |-> "connected", ssid |-> SSID_A]
    /\ pc = "entry"
    /\ hb = NoResponse
    /\ tick = 0
    /\ boots = 0
    /\ hbNet = NULL
    /\ verAtHb = 1
    /\ fetchLog = NoFetch
    /\ acks = <<>>
    /\ outcome = "none"
    /\ rot = NoRotation
    /\ executed = <<>>
    /\ restartCause = "none"

\* mapSensorType(sensorType)
TrMapSensorType ==
    /\ pc = "entry"
    /\ outcome' = mapSensorType(Val(pre.sensor_type))
    /\ pc' = "typed"
    /\ UNCHANGED <<deviceConfig, eeprom, wifi, hb, tick, boots, hbNet, verAtHb,
                   fetchLog, pre, acks, rot, executed, restartCause>>

\* parsePortId(portId)
TrParsePortId ==
    /\ pc = "entry"
    /\ outcome' = parsePortId(Val(pre.port_id))
    /\ pc' = "pinned"
    /\ UNCHANGED <<deviceConfig, eeprom, wifi, hb, tick, boots, hbNet, verAtHb,
                   fetchLog, pre, acks, rot, executed, restartCause>>

TranslateNext == TrMapSensorType \/ TrParsePortId

SpecTranslate == TranslateInit /\ [][TranslateNext]_vars

\* p occurs in s
Contains(s, p) ==
    \E i \in 1..Len(s) :
        /\ i + Len(p) - 1 <= Len(s)
        /\ \A k \in 1..Len(p) : s[i + k - 1] = p[k]

\* C33: mapSensorType returns 1 for a name that contains "temp" or
\* "humidity"; otherwise 3 for a name that contains "soil_moisture";
\* otherwise 4 for the name "water_level" itself; otherwise 0.
\* "soil_moisture_1" gives 3 and "unconfigured" gives 0.
C33_MapSensorType ==
    pc = "typed" =>
        LET name == Val(pre.sensor_type)
        IN  /\ outcome =
                 IF Contains(name, S_temp) \/ Contains(name, S_humidity) THEN 1
                 ELSE IF Contains(name, S_soil_moisture) THEN 3
                 ELSE IF name = S_water_level THEN 4
                 ELSE 0
            /\ name = S_soil_moisture \o <<"_","1">> => outcome = 3
            /\ name = S_unconfigured => outcome = 0

\* a name that contains "water_level" without being it maps to none
C33_Witness ==
    /\ pc = "typed"
    /\ pre.sensor_type = Some(S_water_level \o <<"_","2">>)
    /\ outcome = 0

\* the number the claim gives for a token: n for "GPIO<n>", the n-th entry
\* of the table for "D<n>" with n up to 10, the analog pin for "A0", and
\* for every other token the number it starts with, 0 when it starts with
\* none
StatedPin(token) ==
    IF \E n \in PortNumbers : token = S_GPIO \o Decimal(n)
    THEN CHOOSE n \in PortNumbers : token = S_GPIO \o Decimal(n)
    ELSE IF \E n \in 0..10 : token = <<"D">> \o Decimal(n)
    THEN <<16, 5, 4, 0, 2, 14, 12, 13, 15, 3, 1>>[
            (CHOOSE n \in 0..10 : token = <<"D">> \o Decimal(n)) + 1]
    ELSE IF token = <<"A","0">> THEN A0
    ELSE IF \E n \in PortNumbers : token = Decimal(n)
    THEN CHOOSE n \in PortNumbers : token = Decimal(n)
    ELSE IF token = <<"-","1">> THEN -1
    ELSE 0

\* C34 as stated: parsePortId yields n for "GPIO<n>", the n-th table entry
\* for "D<n>" with n in 0..10 ("D1" gives 5), the analog pin for "A0", and
\* for "D<n>" beyond the table and every other token the number the token
\* starts with, 0 when it starts with none.
C34_ParsePortId ==
    pc = "pinned" =>
        /\ outcome = StatedPin(Val(pre.port_id))
        /\ pre.port_id = Some(<<"D","1">>) => outcome = 5

\* C34 as amended: the same, the number being reduced modulo 256 (the
\* result is a uint8_t): "GPIO256" gives 0, "300" gives 44, "-1" gives 255.
C34_ParsePortIdByte ==
    pc = "pinned" =>
        /\ outcome = StatedPin(Val(pre.port_id)) % 256
        /\ outcome \in 0..255
        /\ pre.port_id = Some(<<"D","1">>) => outcome = 5
        /\ pre.port_id = Some(<<"D","1","1">>) => outcome = 0

\* "GPIO300" has been parsed
C34_Witness ==
    /\ pc = "pinned"
    /\ pre.port_id = Some(S_GPIO \o <<"3","0","0">>)
    /\ outcome = 44

\* ------------------------------------------------ what a rotation leaves

\* the fields of the record that a rotation has no business with
NotCredentials(cfg) ==
    <<cfg.composite_device_id, cfg.device_key, cfg.sensors, cfg.config_version>>

\* C35: from the first step of a credential rotation to its end (the return
\* of updateWiFiCredentials, the restart after a commit, the restart after a
\* failed fallback, a loss of power on the way), the device identifier, the
\* device key, the sensor slots and config_version are those the record had
\* when the rotation began, in memory and in storage.
C35_RotationFrame ==
    rot.trail # <<>> =>
        /\ NotCredentials(deviceConfig) = NotCredentials(pre.mem)
        /\ NotCredentials(eeprom) = NotCredentials(pre.ee)

\* a committed rotation: credentials, backup and checksum have changed
C35_Witness ==
    /\ rot.trail = <<"BACKUP", "ATTEMPT_NEW", "COMMITTED">>
    /\ eeprom.wifi_ssid # pre.ee.wifi_ssid
    /\ eeprom.wifi_backup # pre.ee.wifi_backup
    /\ eeprom.crc32 # pre.ee.crc32
    /\ deviceConfig = eeprom
    /\ deviceConfig.config_version = 2

\* --------------------------- sendHeartbeat, then fetchAndApplyCloudConfig

\* one call of sendHeartbeat() and one call of fetchAndApplyCloudConfig(),
\* without the loop's code between and after them
FetchCall ==
    /\ pc = "sync"
    /\ \E rsp \in FetchAnswers :
          LET f == fetchAndApplyCloudConfig(store, wifi.status, rsp)
          IN  /\ deviceConfig' = f.st.mem
              /\ eeprom' = f.st.ee
              /\ fetchLog' = [calls |-> 1, posts |-> f.posts,
                              rsp |-> IF f.posts = 0 THEN NULL ELSE Some(rsp),
                              ok |-> f.ok]
    /\ pc' = "cmd"
    /\ pre' = store
    /\ UNCHANGED <<wifi, hb, tick, boots, hbNet, verAtHb, acks, outcome, rot,
                   executed, restartCause>>

SyncCallsNext == HbCall \/ FetchCall

SpecSyncCalls == HeartbeatInit /\ [][SyncCallsNext]_vars

\* the record without its sensor slots and its checksum
ExceptSlots(cfg) == [cfg EXCEPT !.sensors = ZeroSensors, !.crc32 = {}]

\* C36: when sendHeartbeat has returned, the record in memory and the
\* record in storage are what they were before the call, whatever the
\* answer; when fetchAndApplyCloudConfig has returned true, the two records
\* differ from what they were in the sensor slots and the checksum only:
\* config_version (also when the heartbeat reported another one),
\* credentials, backup, identifier and key are unchanged.
C36_SyncCallsFrame ==
    /\ pc = "sync" => (deviceConfig = pre.mem /\ eeprom = pre.ee)
    /\ (pc = "cmd" /\ fetchLog.ok) =>
          /\ ExceptSlots(deviceConfig) = ExceptSlots(pre.mem)
          /\ ExceptSlots(eeprom) = ExceptSlots(pre.ee)
          /\ deviceConfig.config_version = verAtHb

\* the heartbeat reported version 2 to a device at version 1, and the fetch
\* that followed has replaced the slots
C36_Witness ==
    /\ pc = "cmd"
    /\ fetchLog.ok
    /\ hb.config_version = 2
    /\ deviceConfig.config_version = 1
    /\ eeprom.config_version = 1
    /\ deviceConfig.sensors # pre.mem.sensors
    /\ eeprom.crc32 # pre.ee.crc32

\* ------------------------------------------- a rotation after a rotation

\* C37: from its first step on, a rotation holds in the backup, in memory
\* and in storage, the credentials that were current when it began,
\* whatever an earlier rotation left there; after the restore the current
\* credentials are those again.  After a committed rotation A -> B and a
\* rotation B -> C that rolls back, the stored SSID is B and the backup
\* holds B, not A.
C37_BackupIsLatest ==
    rot.trail # <<>> =>
        /\ BackupCreds(eeprom) = Creds(pre.ee)
        /\ BackupCreds(deviceConfig) = Creds(pre.mem)
        /\ eeprom.wifi_backup.valid
        /\ (RotationAt("RESTORE_BACKUP") \/ RotationAt("RECONNECTED")
               \/ RotationAt("FATAL")) =>
              /\ Creds(eeprom) = Creds(pre.ee)
              /\ Creds(deviceConfig) = Creds(pre.mem)
        /\ (BackupCreds(pre.ee) = <<SSID_A, PASS_A>>
               /\ Creds(pre.ee) = <<SSID_B, PASS_B>>
               /\ RotationAt("RECONNECTED")) =>
              /\ eeprom.wifi_ssid = SSID_B
              /\ eeprom.wifi_backup.ssid = SSID_B

\* the device committed A -> B, restarted, and has rolled back a rotation
\* to a third network
C37_Witness ==
    /\ boots = 1
    /\ RotationAt("RECONNECTED")
    /\ pc = "ret"
    /\ BackupCreds(pre.ee) = <<SSID_A, PASS_A>>
    /\ pre.ee.wifi_backup.valid
    /\ Creds(pre.ee) = <<SSID_B, PASS_B>>
    /\ hb.command.ssid # SSID_B
    /\ eeprom.wifi_ssid = SSID_B
    /\ BackupCreds(eeprom) = <<SSID_B, PASS_B>>

\* ------------------------------------------- what a heartbeat result holds

\* C38: the result of sendHeartbeat holds a valid command only if the
\* request was answered with status 200, the body parsed, and it held a
\* command object with id and type (and a non-empty ssid for wifi_update, a
\* non-empty url for firmware_update).  A 200 answer whose body does not
\* parse gives success = false, config_version = -1 and no valid command; a
\* parsed 200 body without success gives success = false, one without
\* config_version gives config_version = -1.
C38_HeartbeatResult ==
    pc = "sync" =>
        /\ hb.command.valid =>
              /\ ~IsNull(hbNet)
              /\ Val(hbNet).code = 200
              /\ Val(hbNet).parsed
              /\ ~IsNull(Val(hbNet).doc.command)
              /\ StatedValid(ParsedObject)
        /\ (~IsNull(hbNet) /\ Val(hbNet).code = 200) =>
              IF ~Val(hbNet).parsed
              THEN /\ hb.success = FALSE
                   /\ hb.config_version = -1
                   /\ hb.command.valid = FALSE
              ELSE /\ IsNull(Val(hbNet).doc.success) => hb.success = FALSE
                   /\ IsNull(Val(hbNet).doc.config_version) =>
                         hb.config_version = -1

\* a parsed 200 answer with a config_version and no success member
C38_Witness ==
    /\ pc = "sync"
    /\ ~IsNull(hbNet)
    /\ Val(hbNet).code = 200
    /\ Val(hbNet).parsed
    /\ IsNull(Val(hbNet).doc.success)
    /\ Val(hbNet).doc.config_version = Some(2)
    /\ hb.success = FALSE
    /\ hb.config_version = 2

\* ------------------------------------- performOTAUpdate always says false

\* what ESPhttpUpdate.update returned in the firmware update of this tick
UpdateReturned == Last(executed).update

====
